---- MODULE Spec2Model ----
(***************************************************************************)
(* Access-control core of the care-circle application: the policy store    *)
(* (role defaults and member overrides per patient circle), the resolver   *)
(* effectiveAllowed of the account permissions page, and the mutation and  *)
(* load handlers of the account permissions page and of the per-patient    *)
(* permissions page.                                                       *)
(*                                                                         *)
(* Storage is the hosted relational store the pages talk to: every request *)
(* either succeeds or comes back with an error, and the handlers branch on *)
(* that.  A handler is one action; the outcome of each of its requests is  *)
(* an input of the action.                                                 *)
(***************************************************************************)
EXTENDS Integers, FiniteSets, Sequences, TLC

(***************************************************************************)
(* Bounds of the model.                                                    *)
(***************************************************************************)
\* number of mutation handlers run in one behaviour
MaxOps == 2
\* number of requests that come back with an error inside one handler run
MaxFail == 2

(***************************************************************************)
(* Universe: two patient circles, four users, the signed-in user.          *)
(***************************************************************************)
Patients == {"p1", "p2"}
Users == {"u0", "u1", "u2", "u3"}
Me == "u0"
NULL == "null"

\* rows of the feature_keys table (the capability catalogue)
feature_keys == {"meds_view", "profile_view"}
\* a feature key that is in no catalogue
UnknownFeature == "not_a_feature"
AllFeatureKeys == feature_keys \cup {UnknownFeature}

\* String.prototype.toLowerCase on the role strings that occur
toLowerCase(s) ==
  CASE s = "Carer" -> "carer"
    [] s = "Family" -> "family"
    [] s = NULL -> ""
    [] OTHER -> s

\* roles a mutation handler is run with (the UI passes lower-cased roles)
InputRoles == {"family", "carer"}
\* members a member-override handler is run for
InputUsers == {"u0", "u1"}

(***************************************************************************)
(* State.                                                                  *)
(***************************************************************************)
VARIABLES
  patient_members,                   \* [patient -> [user -> role | NULL]]
  patient_role_feature_defaults,     \* primary role-default table (rows)
  patient_member_feature_overrides,  \* primary member-override table (rows)
  permissions_role_templates,        \* legacy role-default table (rows)
  permissions_member_overrides,      \* legacy member-override table (rows)
  acct,                              \* React state of the account permissions page
  perm,                              \* React state of the patient permissions page
  nOps,                              \* mutation handlers run so far
  row,                               \* a stored record with an encrypted and a legacy column
  summary,                           \* state of the clinician summary page
  vault,                             \* key tables, device storage and setupE2EE calls
  patientPage,                       \* React state of the patient page
  thread                             \* state of the message thread page

store == <<patient_members, patient_role_feature_defaults,
           patient_member_feature_overrides, permissions_role_templates,
           permissions_member_overrides>>
policyTables == <<patient_role_feature_defaults, patient_member_feature_overrides,
                  permissions_role_templates, permissions_member_overrides>>
codecVars == <<row, summary>>
clientVars == <<vault, patientPage, thread>>
policyVars == <<store, acct, perm, nOps>>
vars == <<patient_members, patient_role_feature_defaults,
          patient_member_feature_overrides, permissions_role_templates,
          permissions_member_overrides, acct, perm, nOps, row, summary,
          vault, patientPage, thread>>

(***************************************************************************)
(* Status line of a page.                                                  *)
(***************************************************************************)
Status(kind, msg) == [kind |-> kind, msg |-> msg]
NotControllerMsgAcct == "Only the patient/legal guardian can change permissions."
\* q.error.message / up.error.message of a failed request
StorageErrorMsg == "request failed"

(***************************************************************************)
(* Storage primitives.                                                     *)
(***************************************************************************)
KEEP == "keep"

\* upsert(payload, { onConflict: "patient_id,role,feature_key" })
UpsertRoleRow(tbl, pid, role, fk, allowed, created_by) ==
  LET hit == {r \in tbl : r.patient_id = pid /\ r.role = role /\ r.feature_key = fk}
      by  == IF created_by # KEEP THEN created_by
             ELSE IF hit # {} THEN (CHOOSE r \in hit : TRUE).created_by
             ELSE NULL
  IN (tbl \ hit) \cup {[patient_id |-> pid, role |-> role, feature_key |-> fk,
                        allowed |-> allowed, created_by |-> by]}

\* variant: the conflict target leaves out feature_key
UpsertMemberRow_PerUser(tbl, pid, uid, fk, allowed, updated_by) ==
  LET hit == {r \in tbl : r.patient_id = pid /\ r.user_id = uid}
  IN (tbl \ hit) \cup {[patient_id |-> pid, user_id |-> uid, feature_key |-> fk,
                        allowed |-> allowed, updated_by |-> updated_by]}

\* upsert(payload, { onConflict: "patient_id,user_id,feature_key" })
UpsertMemberRow(tbl, pid, uid, fk, allowed, updated_by) ==
  LET hit == {r \in tbl : r.patient_id = pid /\ r.user_id = uid /\ r.feature_key = fk}
      by  == IF updated_by # KEEP THEN updated_by
             ELSE IF hit # {} THEN (CHOOSE r \in hit : TRUE).updated_by
             ELSE NULL
  IN (tbl \ hit) \cup {[patient_id |-> pid, user_id |-> uid, feature_key |-> fk,
                        allowed |-> allowed, updated_by |-> by]}

(***************************************************************************)
(* Account permissions page (src/app/app/account/permissions/page.tsx).    *)
(***************************************************************************)
ControllerRolesAcct == {"patient", "guardian", "legal_guardian", "owner"}

\* const isController = useMemo(...)
isController == toLowerCase(acct.myRole) \in ControllerRolesAcct

\* variant: the override is consulted before the controller rule
effectiveAllowedOn_OverrideFirst(memberOverrides, roleDefaults, userId, role, featureKey) ==
  LET r == toLowerCase(role)
      override == {o \in memberOverrides : o.user_id = userId /\ o.feature_key = featureKey}
      def == {d \in roleDefaults : toLowerCase(d.role) = r /\ d.feature_key = featureKey}
  IN IF override # {} THEN (CHOOSE o \in override : TRUE).allowed
     ELSE IF r \in ControllerRolesAcct THEN TRUE
     ELSE IF def # {} THEN (CHOOSE d \in def : TRUE).allowed
     ELSE FALSE

\* variant: the role default is consulted before the override
effectiveAllowedOn_DefaultFirst(memberOverrides, roleDefaults, userId, role, featureKey) ==
  LET r == toLowerCase(role)
      override == {o \in memberOverrides : o.user_id = userId /\ o.feature_key = featureKey}
      def == {d \in roleDefaults : toLowerCase(d.role) = r /\ d.feature_key = featureKey}
  IN IF r \in ControllerRolesAcct THEN TRUE
     ELSE IF def # {} THEN (CHOOSE d \in def : TRUE).allowed
     ELSE IF override # {} THEN (CHOOSE o \in override : TRUE).allowed
     ELSE FALSE

\* variant: the member's role is compared with the stored role as it is
effectiveAllowedOn_NoLowerCase(memberOverrides, roleDefaults, userId, role, featureKey) ==
  LET r == toLowerCase(role)
      override == {o \in memberOverrides : o.user_id = userId /\ o.feature_key = featureKey}
      def == {d \in roleDefaults : d.role = role /\ d.feature_key = featureKey}
  IN IF r \in ControllerRolesAcct THEN TRUE
     ELSE IF override # {} THEN (CHOOSE o \in override : TRUE).allowed
     ELSE IF def # {} THEN (CHOOSE d \in def : TRUE).allowed
     ELSE FALSE

\* variant: a feature with a default on another feature of the role is allowed
effectiveAllowedOn_RoleWide(memberOverrides, roleDefaults, userId, role, featureKey) ==
  LET r == toLowerCase(role)
      override == {o \in memberOverrides : o.user_id = userId /\ o.feature_key = featureKey}
      def == {d \in roleDefaults : toLowerCase(d.role) = r /\ d.feature_key = featureKey}
      any == {d \in roleDefaults : toLowerCase(d.role) = r}
  IN IF r \in ControllerRolesAcct THEN TRUE
     ELSE IF override # {} THEN (CHOOSE o \in override : TRUE).allowed
     ELSE IF def # {} THEN (CHOOSE d \in def : TRUE).allowed
     ELSE \E d \in any : d.allowed

\* the resolver, over the arrays a page holds
effectiveAllowedOn(memberOverrides, roleDefaults, userId, role, featureKey) ==
  LET r == toLowerCase(role)
      override == {o \in memberOverrides : o.user_id = userId /\ o.feature_key = featureKey}
      def == {d \in roleDefaults : toLowerCase(d.role) = r /\ d.feature_key = featureKey}
  IN IF r \in ControllerRolesAcct THEN TRUE
     ELSE IF override # {} THEN (CHOOSE o \in override : TRUE).allowed
     ELSE IF def # {} THEN (CHOOSE d \in def : TRUE).allowed
     ELSE FALSE

effectiveAllowed(userId, role, featureKey) ==
  effectiveAllowedOn(acct.memberOverrides, acct.roleDefaults, userId, role, featureKey)

\* select patient_id,role,feature_key,allowed ... eq patient_id
SelectDefaults(tbl, pid) ==
  {[patient_id |-> r.patient_id, role |-> r.role, feature_key |-> r.feature_key,
    allowed |-> r.allowed] : r \in {x \in tbl : x.patient_id = pid}}

\* variant: the query has no patient filter
SelectOverrides_NoPatientFilter(tbl, pid) ==
  {[patient_id |-> r.patient_id, user_id |-> r.user_id, feature_key |-> r.feature_key,
    allowed |-> r.allowed] : r \in tbl}

\* select patient_id,user_id,feature_key,allowed ... eq patient_id
SelectOverrides(tbl, pid) ==
  {[patient_id |-> r.patient_id, user_id |-> r.user_id, feature_key |-> r.feature_key,
    allowed |-> r.allowed] : r \in {x \in tbl : x.patient_id = pid}}

\* select user_id,role from patient_members eq patient_id
SelectMembers(pid) ==
  {[user_id |-> u, role |-> patient_members[pid][u]] :
     u \in {x \in Users : patient_members[pid][x] # NULL}}

\* patients the signed-in user is a member of
MyPatients == {p \in Patients : patient_members[p][Me] # NULL}

\* const rolesInCircle = useMemo(...)
rolesInCircle ==
  LET set == {toLowerCase(m.role) : m \in acct.members}
  IN IF set # {} THEN set ELSE {"family", "carer", "professional"}

\* the per-member feature list of the render: one fetch, every feature
resolve_all(m) == [f \in acct.features |-> effectiveAllowed(m.user_id, m.role, f)]

\* the resolver over one fetch of the overrides and one of the defaults of a patient
resolveOn(overridesTbl, defaultsTbl, pid, userId, role, featureKey) ==
  effectiveAllowedOn(SelectOverrides(overridesTbl, pid), SelectDefaults(defaultsTbl, pid),
                     userId, role, featureKey)

resolve(pid, userId, featureKey) ==
  resolveOn(patient_member_feature_overrides, patient_role_feature_defaults, pid, userId,
            patient_members[pid][userId], featureKey)

(***************************************************************************)
(* JavaScript values of the codec: null, undefined, a string (the sequence *)
(* of its UTF-16 code units), a number, a number array, an object with the *)
(* properties v, iv, data and ct.                                          *)
(***************************************************************************)
Null == [t |-> "null"]
Undefined == [t |-> "undefined"]
Str(s) == [t |-> "string", s |-> s]
Num(n) == [t |-> "number", n |-> n]
Arr(a) == [t |-> "array", a |-> a]
Obj(v, iv, data, ct) == [t |-> "object", v |-> v, iv |-> iv, data |-> data, ct |-> ct]

\* a record before anything is written to it: *_encrypted and the legacy
\* plaintext column are null; stage, text, key, iv: how the encrypted column
\* was produced
RowInit ==
  [encrypted |-> Null, plaintext |-> Null, stage |-> "empty", text |-> <<>>,
   key |-> Null, iv |-> <<>>]

\* the summary page before its effect has run: ver is the version of the page
\* (0: not loaded), patientKey the useState<CryptoKey | null>(null); called,
\* out: the last call of decryptText; shown: what decryptMaybe returned;
\* record: the sensitive fields of the profile row, each an encrypted and a
\* legacy plaintext column; profile: useState<Profile | null>(null) once
\* setProfile has run; aborted: the load effect ended in an exception
SummaryInit ==
  [ver |-> 0, patientId |-> "", salt |-> <<>>, patientKey |-> Null, called |-> FALSE,
   out |-> [threw |-> FALSE, val |-> Undefined], shown |-> Undefined,
   record |-> <<>>, profile |-> Undefined, aborted |-> FALSE]

\* the account page's key vault before setupE2EE has run: localStorage of each
\* device (cc_device_secret_v1), the two key tables' row of the signed-in
\* user, the position of each tab's setupE2EE call, and every payload sent
VaultInit ==
  [localStorage |-> [d \in {"d1", "d2"} |-> Null],
   user_public_keys |-> Null,
   user_e2ee_keys |-> Null,
   call |-> [t \in {"t1", "t2", "t3"} |->
               [pc |-> "idle", kp |-> 0, secret |-> Null, created |-> FALSE,
                hadWrapped |-> FALSE, status |-> [kind |-> "idle", msg |-> ""]]],
   wire |-> {},
   nKeyPairs |-> 0,
   nSecrets |-> 0]

\* the patient page before its effects have run: perms is
\* useState<Perms | null>(null); loads: the data loads that have run
PatientPageInit ==
  [mounted |-> FALSE, patientId |-> "", perms |-> Null, loads |-> {},
   status |-> [kind |-> "idle", msg |-> ""]]

\* the thread page before it is opened: mounted is "no", "yes" or "gone";
\* effects are the started runs of the load effect, intervals the thread ids
\* that have a live polling timer, inflight the pending polling queries per
\* thread id, dm_messages the stored rows
ThreadInit ==
  [mounted |-> "no", threadId |-> "", messages |-> {}, error |-> "null",
   status |-> [kind |-> "idle", msg |-> ""],
   effects |-> {}, intervals |-> {}, inflight |-> [t \in {"th1", "th2"} |-> 0],
   dm_messages |-> {}]

AcctInit ==
  [mounted |-> FALSE, effectPending |-> FALSE, patients |-> {}, patientId |-> "",
   myRole |-> NULL, members |-> {}, features |-> {}, roleDefaults |-> {},
   memberOverrides |-> {}, status |-> Status("idle", ""), error |-> NULL]

PermInit ==
  [viewerRole |-> NULL, members |-> {}, features |-> {}, roleDefaults |-> {},
   memberOverrides |-> {}, status |-> Status("idle", ""), error |-> NULL]

MembersInit ==
  [p \in Patients |->
     IF p = "p1"
     THEN [u \in Users |-> CASE u = "u0" -> "patient" [] u = "u1" -> "family"
                             [] u = "u2" -> "family" [] OTHER -> "Carer"]
     ELSE [u \in Users |-> CASE u = "u0" -> "family" [] u = "u1" -> "legal_guardian"
                             [] u = "u2" -> NULL [] OTHER -> "owner"]]

\* role defaults a circle starts with: none, or the row the onboarding seed
\* (rpc permissions_seed_defaults) leaves for the family role
SeededDefaults ==
  { {},
    {[patient_id |-> "p1", role |-> "family", feature_key |-> "meds_view",
      allowed |-> TRUE, created_by |-> NULL]} }

Init ==
  /\ patient_members = MembersInit
  /\ patient_role_feature_defaults \in SeededDefaults
  /\ patient_member_feature_overrides = {}
  /\ permissions_role_templates = {}
  /\ permissions_member_overrides = {}
  /\ acct = AcctInit
  /\ perm = PermInit
  /\ nOps = 0
  /\ row = RowInit
  /\ summary = SummaryInit
  /\ vault = VaultInit
  /\ patientPage = PatientPageInit
  /\ thread = ThreadInit

\* subsets of the requests of a handler that come back with an error:
\* the subsets with at most k elements
RECURSIVE SubsetsUpTo(_, _)
SubsetsUpTo(reqs, k) ==
  IF k = 0 THEN {{}}
  ELSE LET S == SubsetsUpTo(reqs, k - 1)
       IN S \cup {s \cup {a} : s \in S, a \in reqs}
FailSets(reqs) == SubsetsUpTo(reqs, MaxFail)

\* first useEffect: loadMyPatients, loadFeatures, setOk("Ready.")
\* F: the requests that fail; first: the row the query returns first
AcctMount(F, first) ==
  /\ ~acct.mounted
  /\ first \in (IF MyPatients = {} THEN {""} ELSE MyPatients)
  /\ LET gotPatients == "patients" \notin F
         pick == gotPatients /\ acct.patientId = "" /\ MyPatients # {}
     IN acct' = [acct EXCEPT
                 !.mounted = TRUE,
                 !.patients = IF gotPatients THEN MyPatients ELSE @,
                 !.patientId = IF pick THEN first ELSE @,
                 !.effectPending = IF pick THEN TRUE ELSE @,
                 !.features = IF "features" \notin F THEN feature_keys ELSE @,
                 !.status = Status("ok", "Ready."),
                 !.error = NULL]
  /\ UNCHANGED <<codecVars, clientVars, store, perm, nOps>>

\* <select onChange={(e) => setPatientId(e.target.value)}>
AcctSelectPatient(p) ==
  /\ acct.mounted
  /\ p \in acct.patients
  /\ p # acct.patientId
  /\ acct' = [acct EXCEPT !.patientId = p, !.effectPending = TRUE]
  /\ UNCHANGED <<codecVars, clientVars, store, perm, nOps>>

\* second useEffect, run after patientId changed:
\* loadMyRole, loadMembers, loadDefaults, loadOverrides, setOk("Up to date.")
AcctPatientEffect(F) ==
  /\ acct.effectPending
  /\ acct.patientId # ""
  /\ LET pid == acct.patientId
     IN acct' = [acct EXCEPT
                 !.effectPending = FALSE,
                 !.myRole = IF "role" \notin F THEN patient_members[pid][Me] ELSE @,
                 !.members = IF "members" \notin F THEN SelectMembers(pid) ELSE @,
                 !.roleDefaults = IF "defaults" \notin F
                                  THEN SelectDefaults(patient_role_feature_defaults, pid)
                                  ELSE @,
                 !.memberOverrides = IF "overrides" \notin F
                                     THEN SelectOverrides(patient_member_feature_overrides, pid)
                                     ELSE @,
                 !.status = Status("ok", "Up to date."),
                 !.error = NULL]
  /\ UNCHANGED <<codecVars, clientVars, store, perm, nOps>>

\* toggleRoleDefault(role, featureKey, next); F: the requests that fail
toggleRoleDefault(role, featureKey, next, F) ==
  /\ acct.mounted
  /\ acct.patientId # ""
  /\ nOps < MaxOps
  /\ nOps' = nOps + 1
  /\ IF ~isController
     THEN /\ F = {}
          /\ acct' = [acct EXCEPT !.status = Status("error", NotControllerMsgAcct),
                                  !.error = NotControllerMsgAcct]
          /\ UNCHANGED store
     ELSE IF "upsert" \in F
     THEN /\ F = {"upsert"}
          /\ acct' = [acct EXCEPT !.status = Status("error", StorageErrorMsg),
                                  !.error = StorageErrorMsg]
          /\ UNCHANGED store
     ELSE /\ patient_role_feature_defaults' =
               UpsertRoleRow(patient_role_feature_defaults, acct.patientId, role,
                             featureKey, next, Me)
          /\ acct' = [acct EXCEPT
               !.roleDefaults = IF "defaults" \notin F
                                THEN SelectDefaults(patient_role_feature_defaults',
                                                    acct.patientId)
                                ELSE @,
               !.status = Status("ok", "Saved"),
               !.error = NULL]
          /\ UNCHANGED <<patient_members, patient_member_feature_overrides,
                         permissions_role_templates, permissions_member_overrides>>
  /\ UNCHANGED <<codecVars, clientVars, perm>>

\* toggleMemberOverride(userId, featureKey, next); F: the requests that fail
toggleMemberOverride(userId, featureKey, next, F) ==
  /\ acct.mounted
  /\ acct.patientId # ""
  /\ nOps < MaxOps
  /\ nOps' = nOps + 1
  /\ IF ~isController
     THEN /\ F = {}
          /\ acct' = [acct EXCEPT !.status = Status("error", NotControllerMsgAcct),
                                  !.error = NotControllerMsgAcct]
          /\ UNCHANGED store
     ELSE IF "upsert" \in F
     THEN /\ F = {"upsert"}
          /\ acct' = [acct EXCEPT !.status = Status("error", StorageErrorMsg),
                                  !.error = StorageErrorMsg]
          /\ UNCHANGED store
     ELSE /\ patient_member_feature_overrides' =
               UpsertMemberRow(patient_member_feature_overrides, acct.patientId, userId,
                               featureKey, next, Me)
          /\ acct' = [acct EXCEPT
               !.memberOverrides = IF "overrides" \notin F
                                   THEN SelectOverrides(patient_member_feature_overrides',
                                                        acct.patientId)
                                   ELSE @,
               !.status = Status("ok", "Saved"),
               !.error = NULL]
          /\ UNCHANGED <<patient_members, patient_role_feature_defaults,
                         permissions_role_templates, permissions_member_overrides>>
  /\ UNCHANGED <<codecVars, clientVars, perm>>

\* the sets of failing requests the handlers of the page are run with
MountFailSets == FailSets({"patients", "features"})
EffectFailSets == FailSets({"role", "members", "defaults", "overrides"})
RoleToggleFailSets == FailSets({"upsert", "defaults"})
MemberToggleFailSets == FailSets({"upsert", "overrides"})

AcctNext ==
  \/ \E F \in MountFailSets, first \in Patients \cup {""} :
       AcctMount(F, first)
  \/ \E p \in Patients : AcctSelectPatient(p)
  \/ \E F \in EffectFailSets :
       AcctPatientEffect(F)
  \/ \E role \in rolesInCircle \cap InputRoles, f \in acct.features, next \in BOOLEAN,
        F \in RoleToggleFailSets :
       toggleRoleDefault(role, f, next, F)
  \/ \E m \in {x \in acct.members : x.user_id \in InputUsers}, f \in acct.features,
        next \in BOOLEAN, F \in MemberToggleFailSets :
       toggleMemberOverride(m.user_id, f, next, F)

SpecAcct == Init /\ [][AcctNext]_vars

(***************************************************************************)
(* Patient permissions page                                                *)
(* (src/app/app/patients/[id]/permissions/page.tsx).                       *)
(***************************************************************************)
\* the patient of the page (useParams().id)
PermPatient == "p1"
NotControllerMsgPerm == "Only patient / legal guardian can change permissions."
NotControllerMsgEdit == "Only patient / legal guardian can edit members."

\* columns of the tables, as the queries of the account page select them
Columns(table) ==
  CASE table = "feature_keys" -> {"key", "label", "description"}
    [] table = "patient_members" ->
         {"patient_id", "user_id", "role", "nickname", "created_at"}
    [] table \in {"patient_role_feature_defaults", "permissions_role_templates"} ->
         {"patient_id", "role", "feature_key", "allowed", "created_by"}
    [] table \in {"patient_member_feature_overrides", "permissions_member_overrides"} ->
         {"patient_id", "user_id", "feature_key", "allowed", "updated_by"}

\* values the role select of a member card offers
ROLE_OPTIONS == {"family", "carer", "professional", "clinician", "guardian", "patient"}
\* roles an edit of a member is run with
InputRoleOptions == {"family", "guardian"}

\* variant: "guardian" is not in the list
isControllerRole_NoGuardian(role) ==
  toLowerCase(role) \in {"patient", "legal_guardian", "owner"}

isControllerRole(role) ==
  LET r == toLowerCase(role)
  IN r = "patient" \/ r = "guardian" \/ r = "legal_guardian" \/ r = "owner"

\* selectWithFallback: the index of the select list that was used, 0 when the
\* result is an error.  An attempt succeeds when the table has the columns it
\* names and the request (req \o index) does not fail.
selectWithFallback(table, selects, req, F) ==
  LET ok == {i \in 1..Len(selects) :
               selects[i] \subseteq Columns(table) /\ <<req, i>> \notin F}
  IN IF ok = {} THEN 0 ELSE CHOOSE i \in ok : \A j \in ok : i <= j

FeatureSelects == << {"key", "label", "desc"}, {"key", "label", "description"},
                     {"key", "name", "description"}, {"key"} >>
MemberSelects == << {"user_id", "role", "nickname"}, {"user_id", "role", "member_nickname"},
                    {"user_id", "role"} >>
RoleDefaultSelects == << {"role", "feature_key", "allowed"},
                         {"role", "feature_key", "is_allowed"}, {"role", "feature_key"} >>
OverrideSelects == << {"user_id", "feature_key", "allowed"},
                      {"member_uid", "feature_key", "allowed"},
                      {"user_id", "feature_key", "is_allowed"}, {"user_id", "feature_key"} >>

\* the hard-coded feature list loadFeatures falls back to
HardcodedFeatures ==
  {"profile_view", "profile_edit", "meds_view", "meds_edit", "journals_view",
   "journals_post_circle", "appointments_view", "appointments_edit", "summary_view",
   "invites_manage", "permissions_manage"}

\* the requests of loadAll that can succeed or fail
LoadAllRequests ==
  {<<"name", 1>>, <<"features", 2>>, <<"features", 4>>, <<"members", 1>>, <<"members", 3>>,
   <<"defaults", 1>>, <<"defaults", 3>>, <<"templates", 1>>, <<"templates", 3>>,
   <<"overrides", 1>>, <<"overrides", 4>>, <<"legacyOverrides", 1>>,
   <<"legacyOverrides", 4>>}
\* the two write requests of a mutation handler
WriteRequests == {<<"write", 1>>, <<"write", 2>>}

\* rows of a role-default table as loadRoleDefaults maps them
MapRoleRows(tbl, sel) ==
  {[role |-> r.role, feature_key |-> r.feature_key,
    allowed |-> IF "allowed" \in sel THEN r.allowed ELSE FALSE] :
     r \in {x \in tbl : x.patient_id = PermPatient}}

\* rows of a member-override table as loadMemberOverrides maps them
MapOverrideRows(tbl, sel) ==
  {[user_id |-> r.user_id, feature_key |-> r.feature_key,
    allowed |-> IF "allowed" \in sel THEN r.allowed ELSE FALSE] :
     r \in {x \in tbl : x.patient_id = PermPatient}}

\* loadFeatures
loadFeatures(pg, F) ==
  IF selectWithFallback("feature_keys", FeatureSelects, "features", F) = 0
  THEN [pg EXCEPT !.features = HardcodedFeatures]
  ELSE [pg EXCEPT !.features = feature_keys]

\* loadPatientName
loadPatientName(pg, F) ==
  IF <<"name", 1>> \in F
  THEN [pg EXCEPT !.error = StorageErrorMsg, !.status = Status("error", StorageErrorMsg)]
  ELSE pg

\* loadMembersAndViewerRole
loadMembersAndViewerRole(pg, members, F) ==
  IF selectWithFallback("patient_members", MemberSelects, "members", F) = 0
  THEN [pg EXCEPT !.error = StorageErrorMsg, !.status = Status("error", StorageErrorMsg)]
  ELSE LET mapped == {[user_id |-> u, role |-> members[PermPatient][u]] :
                        u \in {x \in Users : members[PermPatient][x] # NULL}}
           mine == {x \in mapped : x.user_id = Me}
       IN [pg EXCEPT !.members = mapped,
                     !.viewerRole = IF mine = {} THEN NULL
                                    ELSE (CHOOSE x \in mine : TRUE).role]

\* loadRoleDefaults
loadRoleDefaults(pg, primary, legacy, F) ==
  LET res == selectWithFallback("patient_role_feature_defaults", RoleDefaultSelects,
                                "defaults", F)
      alt == selectWithFallback("permissions_role_templates", RoleDefaultSelects,
                                "templates", F)
  IN IF res # 0
     THEN [pg EXCEPT !.roleDefaults = MapRoleRows(primary, RoleDefaultSelects[res])]
     ELSE IF alt # 0
     THEN [pg EXCEPT !.roleDefaults = MapRoleRows(legacy, RoleDefaultSelects[alt])]
     ELSE [pg EXCEPT !.error = "Role templates missing",
                     !.status = Status("error", "Role templates missing")]

\* loadMemberOverrides
loadMemberOverrides(pg, primary, legacy, F) ==
  LET res == selectWithFallback("patient_member_feature_overrides", OverrideSelects,
                                "overrides", F)
      alt == selectWithFallback("permissions_member_overrides", OverrideSelects,
                                "legacyOverrides", F)
  IN IF res # 0
     THEN [pg EXCEPT !.memberOverrides = MapOverrideRows(primary, OverrideSelects[res])]
     ELSE IF alt # 0
     THEN [pg EXCEPT !.memberOverrides = MapOverrideRows(legacy, OverrideSelects[alt])]
     ELSE [pg EXCEPT !.memberOverrides = {}]

\* loadAll, on the tables as they are when it runs
loadAll(pg, members, defaults, templates, overrides, legacyOverrides, F) ==
  LET p0 == [pg EXCEPT !.error = NULL, !.status = Status("loading", "Loading permissions")]
      p1 == loadPatientName(p0, F)
      p2 == loadFeatures(p1, F)
      p3 == loadMembersAndViewerRole(p2, members, F)
      p4 == loadRoleDefaults(p3, defaults, templates, F)
      p5 == loadMemberOverrides(p4, overrides, legacyOverrides, F)
  IN [p5 EXCEPT !.error = NULL, !.status = Status("ok", "Up to date.")]

\* setOk(msg)
setOk(pg, msg) == [pg EXCEPT !.error = NULL, !.status = Status("ok", msg)]
\* setPageError(msg)
setPageError(pg, msg) == [pg EXCEPT !.error = msg, !.status = Status("error", msg)]

\* const canManage = useMemo(() => isControllerRole(viewerRole), [viewerRole])
canManage == isControllerRole(perm.viewerRole)

\* const roleColumns = useMemo(...)
roleColumns ==
  {"family", "carer", "professional", "clinician", "guardian", "patient"}
    \cup ({toLowerCase(m.role) : m \in perm.members} \ {""})

\* const rolePermMap = useMemo(...): the values the map holds for a key
rolePermMap(pg, role, fk) ==
  {rp.allowed : rp \in {x \in pg.roleDefaults :
                          toLowerCase(x.role) = toLowerCase(role) /\ x.feature_key = fk}}
\* const memberPermMap = useMemo(...): the values the map holds for a key
memberPermMap(pg, uid, fk) ==
  {mp.allowed : mp \in {x \in pg.memberOverrides : x.user_id = uid /\ x.feature_key = fk}}

\* what the page shows for a member and a feature: a controller is treated as
\* always allowed, an override is shown if memberPermMap has one, else the
\* member uses the role template, rolePermMap.get(k) ?? false
PermResolveOn(pg, uid, role, fk) ==
  IF isControllerRole(role) THEN TRUE
  ELSE IF memberPermMap(pg, uid, fk) # {} THEN TRUE \in memberPermMap(pg, uid, fk)
  ELSE TRUE \in rolePermMap(pg, role, fk)

\* a delete without .eq("feature_key")
DeleteMemberRow_AnyFeature(tbl, pid, uid, fk) ==
  {r \in tbl : ~(r.patient_id = pid /\ r.user_id = uid)}

\* delete().eq("patient_id").eq("user_id").eq("feature_key")
DeleteMemberRow(tbl, pid, uid, fk) ==
  {r \in tbl : ~(r.patient_id = pid /\ r.user_id = uid /\ r.feature_key = fk)}

\* useEffect on mount and the Refresh button: loadAll
PermLoadAll(F) ==
  /\ perm' = loadAll(perm, patient_members, patient_role_feature_defaults,
                     permissions_role_templates, patient_member_feature_overrides,
                     permissions_member_overrides, F)
  /\ UNCHANGED <<codecVars, clientVars, store, acct, nOps>>

\* setRolePermission(role, feature_key, allowed)
setRolePermission(role, feature_key, allowed, F) ==
  /\ nOps < MaxOps
  /\ nOps' = nOps + 1
  /\ IF ~canManage
     THEN /\ F = {}
          /\ perm' = setPageError(perm, NotControllerMsgPerm)
          /\ UNCHANGED store
     ELSE IF <<"write", 1>> \notin F
     THEN /\ <<"write", 2>> \notin F
          /\ patient_role_feature_defaults' =
               UpsertRoleRow(patient_role_feature_defaults, PermPatient, role, feature_key,
                             allowed, KEEP)
          /\ UNCHANGED <<patient_members, patient_member_feature_overrides,
                         permissions_role_templates, permissions_member_overrides>>
          /\ perm' = setOk(loadAll(perm, patient_members, patient_role_feature_defaults',
                                   permissions_role_templates,
                                   patient_member_feature_overrides,
                                   permissions_member_overrides, F), "Saved")
     ELSE IF <<"write", 2>> \notin F
     THEN /\ permissions_role_templates' =
               UpsertRoleRow(permissions_role_templates, PermPatient, role, feature_key,
                             allowed, KEEP)
          /\ UNCHANGED <<patient_members, patient_member_feature_overrides,
                         patient_role_feature_defaults, permissions_member_overrides>>
          /\ perm' = setOk(loadAll(perm, patient_members, patient_role_feature_defaults,
                                   permissions_role_templates',
                                   patient_member_feature_overrides,
                                   permissions_member_overrides, F), "Saved")
     ELSE /\ F = WriteRequests
          /\ perm' = setPageError(perm, StorageErrorMsg)
          /\ UNCHANGED store
  /\ UNCHANGED <<codecVars, clientVars, acct>>

\* setMemberOverride(user_id, feature_key, allowed)
setMemberOverride(user_id, feature_key, allowed, F) ==
  /\ nOps < MaxOps
  /\ nOps' = nOps + 1
  /\ IF ~canManage
     THEN /\ F = {}
          /\ perm' = setPageError(perm, NotControllerMsgPerm)
          /\ UNCHANGED store
     ELSE IF <<"write", 1>> \notin F
     THEN /\ <<"write", 2>> \notin F
          /\ patient_member_feature_overrides' =
               UpsertMemberRow(patient_member_feature_overrides, PermPatient, user_id,
                               feature_key, allowed, KEEP)
          /\ UNCHANGED <<patient_members, patient_role_feature_defaults,
                         permissions_role_templates, permissions_member_overrides>>
          /\ perm' = setOk(loadAll(perm, patient_members, patient_role_feature_defaults,
                                   permissions_role_templates,
                                   patient_member_feature_overrides',
                                   permissions_member_overrides, F), "Saved")
     ELSE IF <<"write", 2>> \notin F
     THEN /\ permissions_member_overrides' =
               UpsertMemberRow(permissions_member_overrides, PermPatient, user_id,
                               feature_key, allowed, KEEP)
          /\ UNCHANGED <<patient_members, patient_role_feature_defaults,
                         permissions_role_templates, patient_member_feature_overrides>>
          /\ perm' = setOk(loadAll(perm, patient_members, patient_role_feature_defaults,
                                   permissions_role_templates,
                                   patient_member_feature_overrides,
                                   permissions_member_overrides', F), "Saved")
     ELSE /\ F = WriteRequests
          /\ perm' = setPageError(perm, StorageErrorMsg)
          /\ UNCHANGED store
  /\ UNCHANGED <<codecVars, clientVars, acct>>

\* clearMemberOverride(user_id, feature_key)
clearMemberOverride(user_id, feature_key, F) ==
  /\ nOps < MaxOps
  /\ nOps' = nOps + 1
  /\ IF ~canManage
     THEN /\ F = {}
          /\ perm' = setPageError(perm, NotControllerMsgPerm)
          /\ UNCHANGED store
     ELSE IF <<"write", 1>> \notin F
     THEN /\ <<"write", 2>> \notin F
          /\ patient_member_feature_overrides' =
               DeleteMemberRow(patient_member_feature_overrides, PermPatient, user_id,
                               feature_key)
          /\ UNCHANGED <<patient_members, patient_role_feature_defaults,
                         permissions_role_templates, permissions_member_overrides>>
          /\ perm' = setOk(loadAll(perm, patient_members, patient_role_feature_defaults,
                                   permissions_role_templates,
                                   patient_member_feature_overrides',
                                   permissions_member_overrides, F), "Override cleared")
     ELSE IF <<"write", 2>> \notin F
     THEN /\ permissions_member_overrides' =
               DeleteMemberRow(permissions_member_overrides, PermPatient, user_id,
                               feature_key)
          /\ UNCHANGED <<patient_members, patient_role_feature_defaults,
                         permissions_role_templates, patient_member_feature_overrides>>
          /\ perm' = setOk(loadAll(perm, patient_members, patient_role_feature_defaults,
                                   permissions_role_templates,
                                   patient_member_feature_overrides,
                                   permissions_member_overrides', F), "Override cleared")
     ELSE /\ F = WriteRequests
          /\ perm' = setPageError(perm, StorageErrorMsg)
          /\ UNCHANGED store
  /\ UNCHANGED <<codecVars, clientVars, acct>>

\* updateMemberRoleAndNickname(user_id, role, nickname): the role part; the
\* first update names the nickname column, the second the member_nickname column
updateMemberRoleAndNickname(user_id, role, F) ==
  /\ nOps < MaxOps
  /\ nOps' = nOps + 1
  /\ IF ~canManage
     THEN /\ F = {}
          /\ perm' = setPageError(perm, NotControllerMsgEdit)
          /\ UNCHANGED store
     ELSE IF \/ ("nickname" \in Columns("patient_members") /\ <<"write", 1>> \notin F)
             \/ ("member_nickname" \in Columns("patient_members") /\ <<"write", 2>> \notin F)
     THEN /\ (<<"write", 1>> \notin F => <<"write", 2>> \notin F)
          /\ patient_members' =
               [patient_members EXCEPT ![PermPatient][user_id] =
                  IF @ # NULL THEN role ELSE @]
          /\ UNCHANGED policyTables
          /\ perm' = setOk(loadAll(perm, patient_members', patient_role_feature_defaults,
                                   permissions_role_templates,
                                   patient_member_feature_overrides,
                                   permissions_member_overrides, F), "Member updated")
     ELSE /\ F \subseteq WriteRequests
          /\ perm' = setPageError(perm, StorageErrorMsg)
          /\ UNCHANGED store
  /\ UNCHANGED <<codecVars, clientVars, acct>>

\* a request fails only if it is sent: a later attempt of selectWithFallback is
\* sent when the earlier ones failed, the legacy table is read when the primary
\* one could not be, the second write is sent when the first failed
Sent(F) ==
  /\ <<"features", 4>> \in F => <<"features", 2>> \in F
  /\ <<"members", 3>> \in F => <<"members", 1>> \in F
  /\ <<"defaults", 3>> \in F => <<"defaults", 1>> \in F
  /\ <<"templates", 1>> \in F => <<"defaults", 3>> \in F
  /\ <<"templates", 3>> \in F => <<"templates", 1>> \in F
  /\ <<"overrides", 4>> \in F => <<"overrides", 1>> \in F
  /\ <<"legacyOverrides", 1>> \in F => <<"overrides", 4>> \in F
  /\ <<"legacyOverrides", 4>> \in F => <<"legacyOverrides", 1>> \in F
  /\ <<"write", 2>> \in F => <<"write", 1>> \in F

\* the sets of failing requests a handler of the page is run with
LoadAllFailSets == {F \in FailSets(LoadAllRequests) : Sent(F)}
MutationFailSets == {F \in FailSets(LoadAllRequests \cup WriteRequests) : Sent(F)}

\* features and members a handler of the page is run with
PermInputFeatures == perm.features \cap feature_keys
PermInputMembers == {m \in perm.members : m.user_id \in InputUsers}

PermNext ==
  \/ \E F \in LoadAllFailSets : PermLoadAll(F)
  \/ \E role \in roleColumns \cap InputRoles, f \in PermInputFeatures, allowed \in BOOLEAN,
        F \in MutationFailSets :
       setRolePermission(role, f, allowed, F)
  \/ \E m \in PermInputMembers, f \in PermInputFeatures, allowed \in BOOLEAN,
        F \in MutationFailSets :
       setMemberOverride(m.user_id, f, allowed, F)
  \/ \E m \in PermInputMembers, f \in PermInputFeatures,
        F \in MutationFailSets :
       clearMemberOverride(m.user_id, f, F)
  \/ \E m \in PermInputMembers, role \in InputRoleOptions,
        F \in MutationFailSets :
       updateMemberRoleAndNickname(m.user_id, role, F)

SpecPerm == Init /\ [][PermNext]_vars

(***************************************************************************)
(* Properties.                                                             *)
(***************************************************************************)
\* members of patient pid in the store
MembersOf(pid) == {u \in Users : patient_members[pid][u] # NULL}
\* the member is not a controller for the resolver
NonController(role) == toLowerCase(role) \notin ControllerRolesAcct
\* override rows / default rows of one key in a set of rows
OverridesFor(rows, uid, fk) == {o \in rows : o.user_id = uid /\ o.feature_key = fk}
DefaultsFor(rows, role, fk) ==
  {d \in rows : d.role = toLowerCase(role) /\ d.feature_key = fk}
OverridesOf(pid) == {o \in patient_member_feature_overrides : o.patient_id = pid}
DefaultsOf(pid) == {d \in patient_role_feature_defaults : d.patient_id = pid}

\* C1: a member whose role is patient, legal_guardian or owner is allowed every
\* feature, in the store and in the list the page renders, whatever rows are
\* stored for the member, an override with allowed = FALSE included.
C1_ControllerAlwaysAllowed ==
  /\ \A P \in Patients : \A u \in MembersOf(P) : \A f \in AllFeatureKeys :
       toLowerCase(patient_members[P][u]) \in {"patient", "legal_guardian", "owner"}
         => resolve(P, u, f) = TRUE
  /\ \A m \in acct.members : \A f \in AllFeatureKeys :
       toLowerCase(m.role) \in {"patient", "legal_guardian", "owner"}
         => effectiveAllowed(m.user_id, m.role, f) = TRUE

C1_Witness ==
  \E P \in Patients : \E u \in MembersOf(P) : \E f \in feature_keys :
    /\ toLowerCase(patient_members[P][u]) \in {"patient", "legal_guardian", "owner"}
    /\ \E o \in OverridesFor(OverridesOf(P), u, f) : o.allowed = FALSE
    /\ acct.patientId = P
    /\ \E o \in OverridesFor(acct.memberOverrides, u, f) : o.allowed = FALSE
    /\ \E m \in acct.members : m.user_id = u /\ effectiveAllowed(u, m.role, f)

\* C2: for a non-controller member with an override on a feature the resolver
\* returns the override's value, also when the role default of the member's
\* role on that feature has the opposite value.
C2_OverrideWins ==
  /\ \A P \in Patients : \A u \in MembersOf(P) : \A f \in AllFeatureKeys :
       NonController(patient_members[P][u])
         => \A o \in OverridesFor(OverridesOf(P), u, f) : resolve(P, u, f) = o.allowed
  /\ \A m \in acct.members : \A f \in AllFeatureKeys :
       NonController(m.role)
         => \A o \in OverridesFor(acct.memberOverrides, m.user_id, f) :
              effectiveAllowed(m.user_id, m.role, f) = o.allowed

C2_Witness ==
  \E P \in Patients : \E u \in MembersOf(P) : \E f \in feature_keys :
    /\ NonController(patient_members[P][u])
    /\ \E o \in OverridesFor(OverridesOf(P), u, f) :
       \E d \in DefaultsFor(DefaultsOf(P), patient_members[P][u], f) :
         /\ o.allowed # d.allowed
         /\ resolve(P, u, f) = o.allowed

\* C3: for a non-controller member with no override on a feature and a role
\* default stored for the member's role on it, the resolver returns the
\* default's value.
C3_RoleDefaultApplies ==
  /\ \A P \in Patients : \A u \in MembersOf(P) : \A f \in AllFeatureKeys :
       (NonController(patient_members[P][u]) /\ OverridesFor(OverridesOf(P), u, f) = {})
         => \A d \in DefaultsFor(DefaultsOf(P), patient_members[P][u], f) :
              resolve(P, u, f) = d.allowed
  /\ \A m \in acct.members : \A f \in AllFeatureKeys :
       (NonController(m.role) /\ OverridesFor(acct.memberOverrides, m.user_id, f) = {})
         => \A d \in DefaultsFor(acct.roleDefaults, m.role, f) :
              effectiveAllowed(m.user_id, m.role, f) = d.allowed

C3_Witness ==
  \E P \in Patients : \E u \in MembersOf(P) : \E f \in feature_keys :
    /\ NonController(patient_members[P][u])
    /\ patient_members[P][u] # toLowerCase(patient_members[P][u])
    /\ OverridesFor(OverridesOf(P), u, f) = {}
    /\ \E d \in DefaultsFor(DefaultsOf(P), patient_members[P][u], f) : d.allowed
    /\ resolve(P, u, f) = TRUE

\* C4: for a non-controller member with neither an override nor a role default
\* on a feature key the resolver returns FALSE; a key outside the catalogue
\* is such a key, and the resolver returns a boolean for it.
C4_DefaultDeny ==
  /\ \A P \in Patients : \A u \in MembersOf(P) : \A f \in AllFeatureKeys :
       /\ resolve(P, u, f) \in BOOLEAN
       /\ ( /\ NonController(patient_members[P][u])
            /\ OverridesFor(OverridesOf(P), u, f) = {}
            /\ DefaultsFor(DefaultsOf(P), patient_members[P][u], f) = {} )
          => resolve(P, u, f) = FALSE
  /\ \A m \in acct.members : \A f \in AllFeatureKeys :
       ( /\ NonController(m.role)
         /\ OverridesFor(acct.memberOverrides, m.user_id, f) = {}
         /\ DefaultsFor(acct.roleDefaults, m.role, f) = {} )
       => effectiveAllowed(m.user_id, m.role, f) = FALSE
  /\ \A P \in Patients : \A u \in MembersOf(P) :
       NonController(patient_members[P][u]) => resolve(P, u, UnknownFeature) = FALSE

C4_Witness ==
  \E m \in acct.members : \E f, g \in feature_keys :
    /\ NonController(m.role)
    /\ f # g
    /\ \E d \in DefaultsFor(acct.roleDefaults, m.role, g) : d.allowed
    /\ effectiveAllowed(m.user_id, m.role, g) = TRUE
    /\ OverridesFor(acct.memberOverrides, m.user_id, f) = {}
    /\ DefaultsFor(acct.roleDefaults, m.role, f) = {}
    /\ effectiveAllowed(m.user_id, m.role, f) = FALSE
    /\ effectiveAllowed(m.user_id, m.role, UnknownFeature) = FALSE

\* resolution of every key of the store except those a predicate names
ResolveUnchangedExcept(Touched(_, _, _)) ==
  \A P \in Patients : \A u \in MembersOf(P) : \A g \in AllFeatureKeys :
    ~Touched(P, u, g)
      => resolveOn(patient_member_feature_overrides', patient_role_feature_defaults',
                   P, u, patient_members'[P][u], g)
         = resolve(P, u, g)

\* C7: toggleMemberOverride(U1, F, v) on patient P leaves the resolution of every
\* (patient, member, feature) other than (P, U1, F) as it was, and
\* toggleRoleDefault(R, F, v) on P leaves the resolution of every key whose
\* patient is not P, whose member's role is not R or whose feature is not F as
\* it was.  (A step that leaves the policy tables as they are leaves every
\* resolution as it is; the steps that change them are the ones examined.)
C7_MutationFrame ==
  [][ (policyTables' # policyTables) =>
      /\ \A u \in Users, f \in feature_keys, v \in BOOLEAN,
          F \in MemberToggleFailSets :
          toggleMemberOverride(u, f, v, F)
            => LET Touched(P, m, g) == P = acct.patientId /\ m = u /\ g = f
               IN ResolveUnchangedExcept(Touched)
      /\ \A r \in InputRoles, f \in feature_keys, v \in BOOLEAN,
          F \in RoleToggleFailSets :
          toggleRoleDefault(r, f, v, F)
            => LET Touched(P, m, g) ==
                     /\ P = acct.patientId
                     /\ toLowerCase(patient_members[P][m]) = r
                     /\ g = f
               IN ResolveUnchangedExcept(Touched)
    ]_vars

C7_Witness ==
  /\ acct.status = Status("ok", "Saved")
  /\ \E f \in feature_keys :
       /\ \E d \in DefaultsFor(DefaultsOf("p1"), "family", f) : d.allowed
       /\ \E o \in OverridesFor(OverridesOf("p1"), "u1", f) : ~o.allowed
       /\ resolve("p1", "u1", f) = FALSE
       /\ resolve("p1", "u2", f) = TRUE
       /\ \A g \in feature_keys \ {f} : resolve("p1", "u1", g) = FALSE

\* the resolver of the specification, by point look-ups in the policy store
PointResolve(P, u, f) ==
  LET role == patient_members[P][u]
      O == {o \in patient_member_feature_overrides :
              o.patient_id = P /\ o.user_id = u /\ o.feature_key = f}
      D == {d \in patient_role_feature_defaults :
              d.patient_id = P /\ d.role = toLowerCase(role) /\ d.feature_key = f}
  IN IF ~NonController(role) THEN TRUE
     ELSE IF O # {} THEN \E o \in O : o.allowed
     ELSE IF D # {} THEN \E d \in D : d.allowed
     ELSE FALSE

\* C8: when the page has fetched the members, the role defaults and the
\* overrides of the selected patient, the list it renders for a member maps every
\* feature of the catalogue to the value the resolver gives for that patient,
\* member and feature.
C8_BulkEqualsResolve ==
  [][ \A F \in EffectFailSets :
        (AcctPatientEffect(F) /\ F \subseteq {"role"})
          => \A m \in acct'.members :
               /\ DOMAIN resolve_all(m)' = acct.features
               /\ \A f \in acct.features :
                    resolve_all(m)'[f] = PointResolve(acct.patientId, m.user_id, f)
    ]_vars

C8_Witness ==
  /\ acct.status = Status("ok", "Up to date.")
  /\ acct.features = feature_keys
  /\ acct.patientId # ""
  /\ acct.members = SelectMembers(acct.patientId)
  /\ acct.memberOverrides # {}
  /\ acct.memberOverrides = SelectOverrides(patient_member_feature_overrides, acct.patientId)
  /\ acct.roleDefaults = SelectDefaults(patient_role_feature_defaults, acct.patientId)
  /\ \E m \in acct.members : \E f, g \in feature_keys :
       /\ NonController(m.role)
       /\ resolve_all(m)[f] = TRUE
       /\ resolve_all(m)[g] = FALSE

\* C5: when clearMemberOverride(U, F) ends with "Override cleared" for a
\* non-controller U and every read of its reload succeeds, the page resolves
\* (U, F) to the stored role default of U's role, or to FALSE if there is none.
C5_ClearRevertsToRoleDefault ==
  [][ \A u \in InputUsers, f \in feature_keys, F \in MutationFailSets :
        ( /\ clearMemberOverride(u, f, F)
          /\ F \subseteq WriteRequests
          /\ perm'.status = Status("ok", "Override cleared")
          /\ NonController(patient_members[PermPatient][u]) )
        => LET D == DefaultsFor(DefaultsOf(PermPatient), patient_members[PermPatient][u], f)
           IN PermResolveOn(perm', u, patient_members[PermPatient][u], f)
                = (IF D # {} THEN \E d \in D : d.allowed ELSE FALSE)
    ]_vars

\* rows of the policy store, primary and legacy table, for one role-default key
RoleRowsFor(pid, role, fk) ==
  {<<"patient_role_feature_defaults", r>> :
      r \in {x \in patient_role_feature_defaults :
                x.patient_id = pid /\ x.role = role /\ x.feature_key = fk}}
  \cup
  {<<"permissions_role_templates", r>> :
      r \in {x \in permissions_role_templates :
                x.patient_id = pid /\ x.role = role /\ x.feature_key = fk}}

\* C6: setRolePermission(R, F, v) run again with the arguments of a write that is
\* in the store (one row for the key, holding v) and ending with "Saved" leaves
\* every table as it was, with one row for the key.
C6_IdempotentUpsert ==
  [][ \A role \in InputRoles, f \in feature_keys, v \in BOOLEAN, F \in MutationFailSets :
        ( /\ setRolePermission(role, f, v, F)
          /\ perm'.status = Status("ok", "Saved")
          /\ Cardinality(RoleRowsFor(PermPatient, role, f)) = 1
          /\ \E r \in patient_role_feature_defaults :
               /\ r.patient_id = PermPatient /\ r.role = role /\ r.feature_key = f
               /\ r.allowed = v )
        => /\ store' = store
           /\ Cardinality(RoleRowsFor(PermPatient, role, f)') = 1
    ]_vars

\* C9: when the read of the role defaults or of the overrides fails while the
\* account page loads a patient, the page ends in the error status, not in a
\* status that presents the lists it renders as loaded.
C9_ReadFailureIsUnavailable ==
  [][ \A F \in EffectFailSets :
        (AcctPatientEffect(F) /\ F \cap {"defaults", "overrides"} # {})
          => acct'.status.kind = "error"
    ]_vars

\* C10: a toggle run while the signed-in user is not a controller of the
\* selected patient ends in the not-controller error and leaves the policy
\* tables as they were.
C10_NotControllerRejected ==
  [][ \A f \in feature_keys, v \in BOOLEAN :
        ( /\ \/ \E role \in InputRoles, F \in RoleToggleFailSets :
                  toggleRoleDefault(role, f, v, F)
             \/ \E u \in InputUsers, F \in MemberToggleFailSets :
                  toggleMemberOverride(u, f, v, F)
          /\ ~isControllerRole(patient_members[acct.patientId][Me]) )
        => /\ acct'.status = Status("error", NotControllerMsgAcct)
           /\ policyTables' = policyTables
    ]_vars

\* override rows of one key in the primary and in the legacy table
OverrideRowsFor(pid, uid, fk) ==
  {o \in patient_member_feature_overrides \cup permissions_member_overrides :
     o.patient_id = pid /\ o.user_id = uid /\ o.feature_key = fk}

\* C11: clearMemberOverride(U, F) run by a controller when no override row is
\* stored for (P, U, F) leaves every table as it was, and ends with "Override
\* cleared" unless both delete requests were refused by the storage.  (The
\* handler run by a controller ends with one of two messages; the steps that
\* end with one of them are the ones examined.)
C11_ClearAbsentOverride ==
  [][ \A u \in InputUsers, f \in feature_keys :
        ( /\ canManage
          /\ OverrideRowsFor(PermPatient, u, f) = {}
          /\ nOps' = nOps + 1
          /\ perm'.status.msg \in {"Override cleared", StorageErrorMsg} )
        => \A F \in MutationFailSets :
             clearMemberOverride(u, f, F)
               => /\ store' = store
                  /\ ~(WriteRequests \subseteq F)
                       => perm'.status = Status("ok", "Override cleared")
    ]_vars

C11_Witness ==
  /\ perm.status = Status("ok", "Override cleared")
  /\ nOps = 2
  /\ \E u \in InputUsers, f, g \in feature_keys :
       /\ f # g
       /\ OverrideRowsFor(PermPatient, u, f) = {}
       /\ OverrideRowsFor(PermPatient, u, g) # {}
       /\ patient_member_feature_overrides \cup permissions_member_overrides
            = OverrideRowsFor(PermPatient, u, g)

(***************************************************************************)
(* Two sessions on one store: the account permissions page and the patient *)
(* permissions page, each handler one request to the storage.              *)
(***************************************************************************)
\* the write requests of setRolePermission that fail
RaceWriteFailSets == {F \in MutationFailSets : F \subseteq WriteRequests}

RaceNext ==
  \/ \E first \in Patients : AcctMount({}, first)
  \/ AcctPatientEffect({})
  \/ \E role \in rolesInCircle \cap InputRoles, f \in acct.features, next \in BOOLEAN,
        F \in RoleToggleFailSets :
       toggleRoleDefault(role, f, next, F)
  \/ PermLoadAll({})
  \/ \E role \in roleColumns \cap InputRoles, f \in PermInputFeatures, allowed \in BOOLEAN,
        F \in RaceWriteFailSets :
       setRolePermission(role, f, allowed, F)

SpecRace == Init /\ [][RaceNext]_vars

\* the store holds one row for the role-default key, and the row holds v
LastWriteIs(pid, role, fk, v) ==
  /\ Cardinality(RoleRowsFor(pid, role, fk)) = 1
  /\ \A x \in RoleRowsFor(pid, role, fk) : x[2].allowed = v

\* C12: when the two sessions write the same (patient, role, feature) with
\* different values, the write that reaches the storage last and ends with
\* "Saved" leaves one row for the key in the store, holding its value: the
\* account page writing after the patient page, and the patient page writing
\* after the account page (whose rows carry created_by).
C12_LastWriteWins ==
  [][ \A role \in InputRoles, f \in feature_keys, v \in BOOLEAN :
        /\ ( /\ nOps' = nOps + 1
             /\ acct.patientId = PermPatient
             /\ \E x \in RoleRowsFor(PermPatient, role, f) : x[2].allowed # v
             /\ acct'.status = Status("ok", "Saved")
             /\ \E F \in RoleToggleFailSets : toggleRoleDefault(role, f, v, F) )
           => LastWriteIs(PermPatient, role, f, v)'
        /\ ( /\ nOps' = nOps + 1
             /\ \E x \in RoleRowsFor(PermPatient, role, f) :
                  x[2].allowed # v /\ x[2].created_by = Me
             /\ perm'.status = Status("ok", "Saved")
             /\ \E F \in RaceWriteFailSets : setRolePermission(role, f, v, F) )
           => LastWriteIs(PermPatient, role, f, v)'
    ]_vars

(***************************************************************************)
(* Member role edits on the patient permissions page, seen by both pages.  *)
(***************************************************************************)
RolesNext ==
  \/ \E first \in Patients : AcctMount({}, first)
  \/ \E p \in Patients : AcctSelectPatient(p)
  \/ AcctPatientEffect({})
  \/ PermLoadAll({})
  \/ \E m \in PermInputMembers, role \in InputRoleOptions, F \in RaceWriteFailSets :
       updateMemberRoleAndNickname(m.user_id, role, F)

SpecRoles == Init /\ [][RolesNext]_vars

\* the three places that decide controller status agree with the set S on
\* every role stored in a circle and on the roles the pages hold: the member
\* list and the mutation guard of the patient page (isControllerRole,
\* canManage), the mutation guard of the account page (isController) and the
\* resolver, which with no row stored allows exactly the controllers
ControllerPlacesUse(S) ==
  /\ \A P \in Patients : \A u \in MembersOf(P) :
       LET role == patient_members[P][u]
       IN /\ isControllerRole(role) = (toLowerCase(role) \in S)
          /\ \A f \in feature_keys :
               effectiveAllowedOn({}, {}, u, role, f) = (toLowerCase(role) \in S)
  /\ canManage = (toLowerCase(perm.viewerRole) \in S)
  /\ isController = (toLowerCase(acct.myRole) \in S)

C14_CircleHasController ==
  \A P \in Patients : \E u \in MembersOf(P) : isControllerRole(patient_members[P][u])

(***************************************************************************)
(* Content codec (src/unnamed/part_005, lib/crypto.ts).                    *)
(* A string is the sequence of its UTF-16 code units, a Uint8Array the     *)
(* sequence of its bytes.                                                  *)
(***************************************************************************)
\* "enc:v1:"
ENC_PREFIX == <<101, 110, 99, 58, 118, 49, 58>>

REPLACEMENT == 65533        \* U+FFFD
BOM == 65279                \* U+FEFF
isHighSurrogate(c) == c \in 55296..56319
isLowSurrogate(c) == c \in 56320..57343

\* UTF-8 bytes of one code point
utf8Bytes(cp) ==
  IF cp < 128 THEN <<cp>>
  ELSE IF cp < 2048 THEN <<192 + (cp \div 64), 128 + (cp % 64)>>
  ELSE IF cp < 65536
    THEN <<224 + (cp \div 4096), 128 + ((cp \div 64) % 64), 128 + (cp % 64)>>
  ELSE <<240 + (cp \div 262144), 128 + ((cp \div 4096) % 64),
         128 + ((cp \div 64) % 64), 128 + (cp % 64)>>

\* the concatenation of the sequences parts[lo], ..., parts[hi]
RECURSIVE FlattenRange(_, _, _)
FlattenRange(parts, lo, hi) ==
  IF lo > hi THEN <<>>
  ELSE IF lo = hi THEN parts[lo]
  ELSE FlattenRange(parts, lo, (lo + hi) \div 2)
         \o FlattenRange(parts, ((lo + hi) \div 2) + 1, hi)
Flatten(parts) == FlattenRange(parts, 1, Len(parts))

\* the bytes of the code unit at i: a surrogate pair is one code point, the low
\* half of a pair gives no bytes of its own, an unpaired surrogate is U+FFFD
unitBytes(s, i) ==
  IF isHighSurrogate(s[i]) /\ i < Len(s) /\ isLowSurrogate(s[i + 1])
    THEN utf8Bytes(65536 + (s[i] - 55296) * 1024 + (s[i + 1] - 56320))
  ELSE IF isLowSurrogate(s[i]) /\ i > 1 /\ isHighSurrogate(s[i - 1]) THEN <<>>
  ELSE IF isHighSurrogate(s[i]) \/ isLowSurrogate(s[i]) THEN utf8Bytes(REPLACEMENT)
  ELSE utf8Bytes(s[i])

\* enc.encode(text): TextEncoder takes a USVString, so an unpaired surrogate is
\* encoded as U+FFFD
encode(s) == Flatten([i \in 1..Len(s) |-> unitBytes(s, i)])

isContinuation(b) == b \in 128..191

\* the length of the well-formed UTF-8 sequence that starts at i, 0 if none
sequenceLen(b, i) ==
  IF b[i] < 128 THEN 1
  ELSE IF b[i] \in 194..223 /\ i + 1 <= Len(b) /\ isContinuation(b[i + 1]) THEN 2
  ELSE IF b[i] \in 224..239 /\ i + 2 <= Len(b) /\ isContinuation(b[i + 1])
          /\ isContinuation(b[i + 2])
          /\ (b[i] - 224) * 4096 + (b[i + 1] - 128) * 64 + (b[i + 2] - 128) >= 2048
          /\ (b[i] - 224) * 4096 + (b[i + 1] - 128) * 64 + (b[i + 2] - 128)
               \notin 55296..57343
    THEN 3
  ELSE IF b[i] \in 240..244 /\ i + 3 <= Len(b) /\ isContinuation(b[i + 1])
          /\ isContinuation(b[i + 2]) /\ isContinuation(b[i + 3])
          /\ (b[i] - 240) * 262144 + (b[i + 1] - 128) * 4096 + (b[i + 2] - 128) * 64
               + (b[i + 3] - 128) \in 65536..1114111
    THEN 4
  ELSE 0

\* the byte at i is a continuation byte of a well-formed sequence
isConsumed(b, i) ==
  /\ isContinuation(b[i])
  /\ \E j \in 1..(i - 1) :
       /\ ~isContinuation(b[j])
       /\ \A k \in (j + 1)..(i - 1) : isContinuation(b[k])
       /\ i <= j + sequenceLen(b, j) - 1

\* the code units decoded at i, a malformed byte decoded as U+FFFD
unitsAt(b, i) ==
  IF isConsumed(b, i) THEN <<>>
  ELSE IF sequenceLen(b, i) = 1 THEN <<b[i]>>
  ELSE IF sequenceLen(b, i) = 2 THEN <<(b[i] - 192) * 64 + (b[i + 1] - 128)>>
  ELSE IF sequenceLen(b, i) = 3
    THEN <<(b[i] - 224) * 4096 + (b[i + 1] - 128) * 64 + (b[i + 2] - 128)>>
  ELSE IF sequenceLen(b, i) = 4
    THEN LET v == (b[i] - 240) * 262144 + (b[i + 1] - 128) * 4096
                    + (b[i + 2] - 128) * 64 + (b[i + 3] - 128) - 65536
         IN <<55296 + (v \div 1024), 56320 + (v % 1024)>>
  ELSE <<REPLACEMENT>>

decodeUnits(b) == Flatten([i \in 1..Len(b) |-> unitsAt(b, i)])

\* dec.decode(bytes): new TextDecoder() is not fatal and does not keep a
\* leading byte order mark
decode(b) ==
  LET u == decodeUnits(b)
  IN IF u # <<>> /\ u[1] = BOM THEN Tail(u) ELSE u

\* the sextet of a base64 character, 64 for "=", -1 for any other code unit
b64Value(c) ==
  IF c \in 65..90 THEN c - 65
  ELSE IF c \in 97..122 THEN c - 71
  ELSE IF c \in 48..57 THEN c + 4
  ELSE IF c = 43 THEN 62
  ELSE IF c = 47 THEN 63
  ELSE IF c = 61 THEN 64
  ELSE -1

\* the base64 character of a sextet
b64Char(v) ==
  IF v < 26 THEN v + 65
  ELSE IF v < 52 THEN v + 71
  ELSE IF v < 62 THEN v - 4
  ELSE IF v = 62 THEN 43
  ELSE 47

\* the four characters of the group of bytes that starts at i
b64Group(b, i) ==
  IF i = Len(b)
    THEN <<b64Char(b[i] \div 4), b64Char((b[i] % 4) * 16), 61, 61>>
  ELSE IF i + 1 = Len(b)
    THEN <<b64Char(b[i] \div 4), b64Char((b[i] % 4) * 16 + (b[i + 1] \div 16)),
           b64Char((b[i + 1] % 16) * 4), 61>>
  ELSE <<b64Char(b[i] \div 4), b64Char((b[i] % 4) * 16 + (b[i + 1] \div 16)),
         b64Char((b[i + 1] % 16) * 4 + (b[i + 2] \div 64)), b64Char(b[i + 2] % 64)>>

\* btoa of the binary string of the bytes
btoa(b) == Flatten([g \in 1..((Len(b) + 2) \div 3) |-> b64Group(b, 3 * g - 2)])

\* bytesToB64(bytes)
bytesToB64(bytes) == btoa(bytes)

\* the characters atob decodes: ASCII whitespace removed, then the padding of
\* a string whose length is a multiple of four
b64Data(s) ==
  LET t == SelectSeq(s, LAMBDA c : c \notin {9, 10, 12, 13, 32})
      n == Len(t)
  IN IF n > 0 /\ n % 4 = 0 /\ t[n] = 61
     THEN IF t[n - 1] = 61 THEN SubSeq(t, 1, n - 2) ELSE SubSeq(t, 1, n - 1)
     ELSE t

\* atob throws InvalidCharacterError
atobThrows(s) ==
  \/ Len(b64Data(s)) % 4 = 1
  \/ \E i \in 1..Len(b64Data(s)) : b64Value(b64Data(s)[i]) \notin 0..63

\* the bytes of the group of sextets that starts at i, the bits left over
\* dropped
sextetGroup(t, i) ==
  IF i + 1 > Len(t) THEN <<>>
  ELSE IF i + 1 = Len(t)
    THEN <<b64Value(t[i]) * 4 + (b64Value(t[i + 1]) \div 16)>>
  ELSE IF i + 2 = Len(t)
    THEN <<b64Value(t[i]) * 4 + (b64Value(t[i + 1]) \div 16),
           (b64Value(t[i + 1]) % 16) * 16 + (b64Value(t[i + 2]) \div 4)>>
  ELSE <<b64Value(t[i]) * 4 + (b64Value(t[i + 1]) \div 16),
         (b64Value(t[i + 1]) % 16) * 16 + (b64Value(t[i + 2]) \div 4),
         (b64Value(t[i + 2]) % 4) * 64 + b64Value(t[i + 3])>>

sextetsToBytes(t) == Flatten([g \in 1..((Len(t) + 3) \div 4) |-> sextetGroup(t, 4 * g - 3)])

\* b64ToBytes(b64), where atob does not throw
b64ToBytes(b64) == sextetsToBytes(b64Data(b64))

(***************************************************************************)
(* Operations on the JavaScript values of the codec.                       *)
(***************************************************************************)
\* a ?? b
Coalesce(a, b) == IF a \in {Null, Undefined} THEN b ELSE a

\* any?.name
Prop(any, name) ==
  IF any.t # "object" THEN Undefined
  ELSE IF name = "iv" THEN any.iv
  ELSE IF name = "data" THEN any.data
  ELSE IF name = "ct" THEN any.ct
  ELSE any.v

\* the decimal digits of a natural number
RECURSIVE digits(_)
digits(n) == IF n < 10 THEN <<48 + n>> ELSE digits(n \div 10) \o <<48 + (n % 10)>>

joinNumbers(a) ==
  Flatten([i \in 1..Len(a) |-> IF i = 1 THEN digits(a[i]) ELSE <<44>> \o digits(a[i])])

\* JSON.stringify of a value that is not an object (strings of the model need
\* no escape)
stringifyPlain(x) ==
  IF x.t = "string" THEN <<34>> \o x.s \o <<34>>
  ELSE IF x.t = "number" THEN digits(x.n)
  ELSE IF x.t = "array" THEN <<91>> \o joinNumbers(x.a) \o <<93>>
  ELSE <<110, 117, 108, 108>>

\* "name":value, of the properties that are not undefined
RECURSIVE joinMembers(_)
joinMembers(ms) ==
  IF ms = <<>> THEN <<>>
  ELSE LET m == <<34>> \o ms[1][1] \o <<34, 58>> \o stringifyPlain(ms[1][2])
       IN IF Len(ms) = 1 THEN m ELSE m \o <<44>> \o joinMembers(Tail(ms))

\* JSON.stringify(x)
stringify(x) ==
  IF x.t # "object" THEN stringifyPlain(x)
  ELSE LET all == << <<<<118>>, x.v>>, <<<<105, 118>>, x.iv>>,
                     <<<<100, 97, 116, 97>>, x.data>>, <<<<99, 116>>, x.ct>> >>
       IN <<123>> \o joinMembers(SelectSeq(all, LAMBDA m : m[2] # Undefined)) \o <<125>>

\* String(x) of a value that is not an object
StringOf(x) ==
  IF x.t = "string" THEN x.s
  ELSE IF x.t = "number" THEN digits(x.n)
  ELSE IF x.t = "array" THEN joinNumbers(x.a)
  ELSE IF x.t = "null" THEN <<110, 117, 108, 108>>
  ELSE <<117, 110, 100, 101, 102, 105, 110, 101, 100>>

\* JSON.parse: a parse result is [ok, val, rest]; the texts parsed are those of
\* the values above, without white space and without escapes
ParseFail == [ok |-> FALSE, val |-> Null, rest |-> <<>>]
isDigit(c) == c \in 48..57

RECURSIVE parseDigits(_, _)
parseDigits(s, acc) ==
  IF s # <<>> /\ isDigit(s[1]) THEN parseDigits(Tail(s), acc * 10 + (s[1] - 48))
  ELSE [ok |-> TRUE, val |-> Num(acc), rest |-> s]

parseNumber(s) ==
  IF s = <<>> \/ ~isDigit(s[1]) THEN ParseFail
  ELSE IF s[1] = 48 /\ Len(s) >= 2 /\ isDigit(s[2]) THEN ParseFail
  ELSE parseDigits(s, 0)

parseString(s) ==
  IF s = <<>> \/ s[1] # 34 THEN ParseFail
  ELSE LET close == {i \in 2..Len(s) : s[i] = 34}
       IN IF close = {} THEN ParseFail
          ELSE LET j == CHOOSE i \in close : \A k \in close : i <= k
                   body == SubSeq(s, 2, j - 1)
               IN IF \E i \in 1..Len(body) : body[i] = 92 \/ body[i] < 32
                  THEN ParseFail
                  ELSE [ok |-> TRUE, val |-> Str(body), rest |-> SubSeq(s, j + 1, Len(s))]

\* the elements of a number array after "[", up to and with "]"
RECURSIVE parseElements(_, _)
parseElements(s, acc) ==
  LET n == parseNumber(s)
  IN IF ~n.ok THEN ParseFail
     ELSE IF n.rest # <<>> /\ n.rest[1] = 44
       THEN parseElements(Tail(n.rest), Append(acc, n.val.n))
     ELSE IF n.rest # <<>> /\ n.rest[1] = 93
       THEN [ok |-> TRUE, val |-> Arr(Append(acc, n.val.n)), rest |-> Tail(n.rest)]
     ELSE ParseFail

parseArray(s) ==
  IF Len(s) < 2 \/ s[1] # 91 THEN ParseFail
  ELSE IF s[2] = 93 THEN [ok |-> TRUE, val |-> Arr(<<>>), rest |-> SubSeq(s, 3, Len(s))]
  ELSE parseElements(Tail(s), <<>>)

parseLiteralNull(s) ==
  IF Len(s) >= 4 /\ SubSeq(s, 1, 4) = <<110, 117, 108, 108>>
  THEN [ok |-> TRUE, val |-> Null, rest |-> SubSeq(s, 5, Len(s))]
  ELSE ParseFail

\* a value that is not an object
parsePlain(s) ==
  IF s = <<>> THEN ParseFail
  ELSE IF s[1] = 34 THEN parseString(s)
  ELSE IF s[1] = 91 THEN parseArray(s)
  ELSE IF isDigit(s[1]) THEN parseNumber(s)
  ELSE parseLiteralNull(s)

\* the object with the property of a member set
WithMember(o, name, val) ==
  IF name = <<118>> THEN [o EXCEPT !.v = val]
  ELSE IF name = <<105, 118>> THEN [o EXCEPT !.iv = val]
  ELSE IF name = <<100, 97, 116, 97>> THEN [o EXCEPT !.data = val]
  ELSE IF name = <<99, 116>> THEN [o EXCEPT !.ct = val]
  ELSE o

\* the members of an object after "{", up to and with "}"
RECURSIVE parseMembers(_, _)
parseMembers(s, o) ==
  LET k == parseString(s)
  IN IF ~k.ok \/ k.rest = <<>> \/ k.rest[1] # 58 THEN ParseFail
     ELSE LET v == parsePlain(Tail(k.rest))
          IN IF ~v.ok THEN ParseFail
             ELSE IF v.rest # <<>> /\ v.rest[1] = 44
               THEN parseMembers(Tail(v.rest), WithMember(o, k.val.s, v.val))
             ELSE IF v.rest # <<>> /\ v.rest[1] = 125
               THEN [ok |-> TRUE, val |-> WithMember(o, k.val.s, v.val),
                     rest |-> Tail(v.rest)]
             ELSE ParseFail

parseObject(s) ==
  IF Len(s) < 2 \/ s[1] # 123 THEN ParseFail
  ELSE IF s[2] = 125
    THEN [ok |-> TRUE, val |-> Obj(Undefined, Undefined, Undefined, Undefined),
          rest |-> SubSeq(s, 3, Len(s))]
  ELSE parseMembers(Tail(s), Obj(Undefined, Undefined, Undefined, Undefined))

\* safeJsonParse(s): JSON.parse(s), null when it throws
safeJsonParse(s) ==
  LET r == IF s # <<>> /\ s[1] = 123 THEN parseObject(s) ELSE parsePlain(s)
  IN IF r.ok /\ r.rest = <<>> THEN r.val ELSE Null

\* !x
Falsy(x) ==
  \/ x \in {Null, Undefined}
  \/ x.t = "string" /\ x.s = <<>>
  \/ x.t = "number" /\ x.n = 0

\* isNumArray(v), isB64String(v)
isNumArray(v) == v.t = "array"
isB64String(v) == v.t = "string" /\ Len(v.s) > 0

(***************************************************************************)
(* WebCrypto as the codec uses it.  A key derived by HKDF is the pair of   *)
(* its inputs; AES-GCM adds a key stream to the plain bytes and appends a  *)
(* tag that binds the key, the iv and the plain bytes, and decryption      *)
(* rejects (OperationError) unless the tag is that of its key and iv.      *)
(***************************************************************************)
RECURSIVE SumRange(_, _, _)
SumRange(a, lo, hi) ==
  IF lo > hi THEN 0
  ELSE IF lo = hi THEN a[lo]
  ELSE SumRange(a, lo, (lo + hi) \div 2) + SumRange(a, ((lo + hi) \div 2) + 1, hi)
Sum(a) == SumRange(a, 1, Len(a))

\* new Uint8Array(numbers)
ToUint8(a) == [i \in 1..Len(a) |-> a[i] % 256]

\* derivePatientKey(patientId, serverSalt): importKey("raw", salt bytes, "HKDF")
\* and deriveKey with the patient bytes as the HKDF salt
derivePatientKey(patientId, serverSalt) ==
  [ikm |-> encode(serverSalt), salt |-> encode(patientId)]

gcmPad(key, iv, i) == (Sum(key.ikm) + Sum(key.salt) + Sum(iv) + i) % 256
gcmTag(key, iv, plain) ==
  <<Len(key.ikm)>> \o key.ikm \o <<Len(key.salt)>> \o key.salt \o iv
    \o <<(Sum(plain) + Len(plain)) % 256>>
gcmTagLen(key, iv) == Len(key.ikm) + Len(key.salt) + Len(iv) + 3

\* crypto.subtle.encrypt({ name: "AES-GCM", iv }, key, plain)
gcmEncrypt(key, iv, plain) ==
  [i \in 1..Len(plain) |-> (plain[i] + gcmPad(key, iv, i)) % 256] \o gcmTag(key, iv, plain)

\* the plain bytes a cipher text holds under a key and an iv
gcmPlain(key, iv, cipher) ==
  [i \in 1..(Len(cipher) - gcmTagLen(key, iv)) |->
     (cipher[i] + 256 - gcmPad(key, iv, i)) % 256]

\* crypto.subtle.decrypt({ name: "AES-GCM", iv }, key, cipher) rejects
gcmRejects(key, iv, cipher) ==
  \/ Len(iv) = 0
  \/ Len(cipher) < gcmTagLen(key, iv)
  \/ SubSeq(cipher, Len(cipher) - gcmTagLen(key, iv) + 1, Len(cipher))
       # gcmTag(key, iv, gcmPlain(key, iv, cipher))

(***************************************************************************)
(* encryptText, encryptTextEnvelope, decryptText.  iv: the twelve bytes    *)
(* crypto.getRandomValues returns.  The result of an async function is     *)
(* [threw, val]: the value it resolves to, or threw when it rejects.       *)
(***************************************************************************)
Return(v) == [threw |-> FALSE, val |-> v]
Throw == [threw |-> TRUE, val |-> Undefined]

\* encryptText(key, text)
encryptText(key, text, iv) ==
  Obj(Undefined, Arr(iv), Arr(gcmEncrypt(key, iv, encode(text))), Undefined)

\* encryptTextEnvelope that leaves out the base64 packing of the JSON text
encryptTextEnvelope_Unpacked(key, text, iv) ==
  LET obj == encryptText(key, text, iv)
      json == stringify(Obj(Num(1), Str(bytesToB64(ToUint8(obj.iv.a))),
                            Str(bytesToB64(ToUint8(obj.data.a))), Undefined))
  IN Str(ENC_PREFIX \o json)

\* encryptTextEnvelope(key, text)
encryptTextEnvelope(key, text, iv) ==
  LET obj == encryptText(key, text, iv)
      json == stringify(Obj(Num(1), Str(bytesToB64(ToUint8(obj.iv.a))),
                            Str(bytesToB64(ToUint8(obj.data.a))), Undefined))
      packed == bytesToB64(encode(json))
  IN Str(ENC_PREFIX \o packed)

\* payload.startsWith(ENC_PREFIX)
startsWith(s, prefix) == Len(s) >= Len(prefix) /\ SubSeq(s, 1, Len(prefix)) = prefix

\* typeof payload === "object" ? JSON.stringify(payload) : String(payload)
bestEffort(payload) ==
  IF payload.t \in {"object", "array", "null"} THEN Str(stringify(payload))
  ELSE Str(StringOf(payload))

\* the bytes of the iv or of the data field: [threw, bytes], bytes = Null when
\* the field is neither a number array nor a non-empty string
fieldBytes(field) ==
  IF isNumArray(field) THEN Return(Arr(ToUint8(field.a)))
  ELSE IF isB64String(field)
    THEN IF atobThrows(field.s) THEN Throw ELSE Return(Arr(b64ToBytes(field.s)))
  ELSE Return(Null)

\* decryptText from "At this point payload should be an object-like"
decryptObject(key, payload) ==
  LET dataField == Coalesce(Prop(payload, "data"), Prop(payload, "ct"))
      ivField == Prop(payload, "iv")
      ivBytes == fieldBytes(ivField)
      dataBytes == fieldBytes(dataField)
  IN IF ivBytes.threw THEN Throw
     ELSE IF dataBytes.threw THEN Throw
     ELSE IF ivBytes.val = Null \/ dataBytes.val = Null THEN Return(bestEffort(payload))
     ELSE IF gcmRejects(key, ivBytes.val.a, dataBytes.val.a) THEN Return(bestEffort(payload))
     ELSE Return(Str(decode(gcmPlain(key, ivBytes.val.a, dataBytes.val.a))))

\* decryptText(key, payload)
decryptText(key, payload) ==
  IF payload \in {Null, Undefined} THEN Return(Null)
  ELSE IF payload.t = "string"
    THEN IF ~startsWith(payload.s, ENC_PREFIX) THEN Return(payload)
         ELSE LET b64 == SubSeq(payload.s, Len(ENC_PREFIX) + 1, Len(payload.s))
              IN IF atobThrows(b64) THEN Throw
                 ELSE LET parsed == safeJsonParse(decode(b64ToBytes(b64)))
                      IN IF Falsy(parsed) THEN Return(payload)
                         ELSE decryptObject(key, parsed)
  ELSE decryptObject(key, payload)

(***************************************************************************)
(* Clinician summary page (src/app/app/patients/[id]/summary/page.tsx),    *)
(* first and second version of the page: key derivation and decryptMaybe.  *)
(***************************************************************************)
\* the code units String.prototype.trim removes
WhiteSpace == {9, 10, 11, 12, 13, 32, 160, 5760, 8232, 8233, 8239, 8287, 12288, BOM}
                 \cup (8192..8202)

\* s.trim()
trim(s) ==
  LET keep == {i \in 1..Len(s) : s[i] \notin WhiteSpace}
  IN IF keep = {} THEN <<>>
     ELSE SubSeq(s, CHOOSE i \in keep : \A k \in keep : i <= k,
                    CHOOSE i \in keep : \A k \in keep : i >= k)

\* safeStr(v), v a string, null or undefined
safeStr(v) ==
  IF v \in {Null, Undefined} THEN Null
  ELSE IF trim(StringOf(v)) # <<>> THEN Str(trim(StringOf(v)))
  ELSE Null

\* "(Encrypted)"
EncryptedMarker == <<40, 69, 110, 99, 114, 121, 112, 116, 101, 100, 41>>
\* "(Encrypted – unable to decrypt)"
UnableMarker ==
  <<40, 69, 110, 99, 114, 121, 112, 116, 101, 100, 32, 8211, 32, 117, 110, 97, 98, 108,
    101, 32, 116, 111, 32, 100, 101, 99, 114, 121, 112, 116, 41>>

\* the floor on the length of the trimmed server salt
SaltFloor == 8

\* first version: if (ENC_SALT) key = await derivePatientKey(patientId, ENC_SALT)
\* second version: if (salt && salt.trim().length >= 8) key = await derivePatientKey(...)
pageKey(ver, patientId, salt) ==
  IF ver = 1
  THEN IF salt # <<>> THEN derivePatientKey(patientId, salt) ELSE Null
  ELSE IF salt # <<>> /\ Len(trim(salt)) >= SaltFloor THEN derivePatientKey(patientId, salt)
       ELSE Null

\* decryptMaybe(encrypted, plaintext) of the page version ver with the key
decryptMaybe(ver, key, encrypted, plaintext) ==
  IF key # Null /\ ~Falsy(encrypted)
  THEN IF decryptText(key, encrypted).threw
       THEN Str(IF ver = 1 THEN EncryptedMarker ELSE UnableMarker)
       ELSE safeStr(decryptText(key, encrypted).val)
  ELSE IF key = Null /\ ~Falsy(encrypted) /\ Falsy(plaintext) THEN Str(EncryptedMarker)
  ELSE safeStr(plaintext)

(***************************************************************************)
(* Inputs of the codec.                                                    *)
(***************************************************************************)
\* useParams().id as code units: "p1", "p2"
PatientIdUnits(pid) == IF pid = "p1" THEN <<112, 49>> ELSE <<112, 50>>

SaltAbsent == <<>>                                             \* no salt configured
SaltShort == <<97, 98, 99>>                                    \* "abc"
SaltPadded == <<32, 32, 97, 98, 99, 100, 101, 32, 32>>         \* "  abcde  "
SaltA == <<115, 97, 108, 116, 45, 111, 110, 101>>              \* "salt-one"
SaltB == <<115, 97, 108, 116, 45, 116, 119, 111, 33>>          \* "salt-two!"
Salts == {SaltAbsent, SaltShort, SaltPadded, SaltA, SaltB}

TextPlain == <<110, 117, 116, 115>>                            \* "nuts"
TextSpaced == <<32, 97>>                                       \* " a"
TextAccent == <<233, 8364>>                                    \* e acute, euro sign
TextAstral == <<55357, 56832>>                                 \* a surrogate pair
TextLoneSurrogate == <<97, 55357>>                             \* "a", a high surrogate
TextBOM == <<BOM, 97>>                                         \* U+FEFF, "a"
Texts == {TextPlain, TextSpaced, TextAccent, TextAstral, TextLoneSurrogate, TextBOM}

\* the legacy plaintext column: "old"
LegacyPlain == Str(<<111, 108, 100>>)

\* values of crypto.getRandomValues(new Uint8Array(12))
Ivs == { <<1, 2, 3, 4, 5, 6, 7, 8, 9, 10, 11, 12>>,
         <<255, 0, 128, 7, 200, 64, 33, 90, 17, 250, 3, 99>> }

\* bits flipped by a change of the stored cipher text
TamperBits == {1, 128}

\* the same envelope in the encodings rows were written with over time
Reencode(env, shape) ==
  IF shape = "numbers-ct" THEN Obj(Undefined, env.iv, Undefined, env.data)
  ELSE IF shape = "base64-data"
    THEN Obj(Undefined, Str(bytesToB64(ToUint8(env.iv.a))),
             Str(bytesToB64(ToUint8(env.data.a))), Undefined)
  ELSE Obj(Undefined, Str(bytesToB64(ToUint8(env.iv.a))), Undefined,
           Str(bytesToB64(ToUint8(env.data.a))))
Shapes == {"numbers-ct", "base64-data", "base64-ct"}

\* payloads that hold no well-formed envelope
MalformedPayloads ==
  { Null, Undefined,
    Str(<<104, 105>>),                                         \* "hi"
    Str(ENC_PREFIX \o <<33, 33, 33>>),                         \* "enc:v1:!!!"
    Str(ENC_PREFIX \o bytesToB64(<<104, 105>>)),               \* enc:v1: + base64("hi")
    Str(ENC_PREFIX \o bytesToB64(<<53>>)),                     \* enc:v1: + base64("5")
    Obj(Undefined, Undefined, Arr(<<1, 2, 3>>), Undefined),    \* iv missing
    Obj(Undefined, Arr(<<1, 2, 3>>), Undefined, Undefined),    \* data and ct missing
    Obj(Undefined, Str(<<33, 33>>), Arr(<<1, 2, 3>>), Undefined),   \* iv: "!!"
    Obj(Undefined, Arr(<<1, 2, 3>>), Undefined, Str(<<65>>)),       \* ct: "A"
    Obj(Undefined, Str(<<65, 81, 61, 61>>), Str(<<65, 81, 61, 61>>), Undefined) }

(***************************************************************************)
(* Steps of the codec.                                                     *)
(***************************************************************************)
\* a record is written: the encrypted column by encryptText (form "object") or
\* by encryptTextEnvelope (form "string") under the key of (pid, salt), the
\* legacy plaintext column with or without a value
WriteRow(pid, salt, text, iv, form, legacy) ==
  /\ row.stage = "empty"
  /\ LET key == derivePatientKey(PatientIdUnits(pid), salt)
     IN row' = [encrypted |-> IF form = "object" THEN encryptText(key, text, iv)
                              ELSE encryptTextEnvelope(key, text, iv),
                plaintext |-> legacy, stage |-> "written", text |-> text,
                key |-> key, iv |-> iv]
  /\ UNCHANGED <<clientVars, store, acct, perm, nOps, summary>>

\* the record holds the envelope in another of the encodings; the page reads a
\* record once, so what is stored changes before that
StoreAs(shape) ==
  /\ row.stage = "written"
  /\ summary.shown = Undefined
  /\ row.encrypted.t = "object"
  /\ row' = [row EXCEPT !.encrypted = Reencode(@, shape), !.stage = "stored"]
  /\ UNCHANGED <<clientVars, store, acct, perm, nOps, summary>>

\* places of the cipher text that are changed: the first and the last byte of
\* the body and of the tag
TamperPlaces == {"body-first", "body-last", "tag-first", "tag-last"}
TamperIndex(place) ==
  LET n == Len(row.encrypted.data.a)
      body == n - gcmTagLen(row.key, row.iv)
  IN IF place = "body-first" THEN 1
     ELSE IF place = "body-last" THEN body
     ELSE IF place = "tag-first" THEN body + 1
     ELSE n

\* one bit of one byte of the stored cipher text is flipped
Tamper(place, bit) ==
  /\ row.stage = "written"
  /\ summary.shown = Undefined
  /\ row.encrypted.t = "object"
  /\ LET i == TamperIndex(place)
         b == row.encrypted.data.a[i]
         flipped == IF (b \div bit) % 2 = 1 THEN b - bit ELSE b + bit
     IN row' = [row EXCEPT !.encrypted.data.a[i] = flipped, !.stage = "tampered"]
  /\ UNCHANGED <<clientVars, store, acct, perm, nOps, summary>>

\* the record holds a payload that is no envelope
StoreMalformed(payload, legacy) ==
  /\ row.stage = "empty"
  /\ row' = [row EXCEPT !.encrypted = payload, !.plaintext = legacy,
                        !.stage = "malformed"]
  /\ UNCHANGED <<clientVars, store, acct, perm, nOps, summary>>

\* the effect of the summary page up to setPatientKey(key)
SummaryLoadKey(ver, pid, salt) ==
  /\ summary.ver = 0
  /\ summary' = [summary EXCEPT !.ver = ver, !.patientId = pid, !.salt = salt,
                                !.patientKey = pageKey(ver, PatientIdUnits(pid), salt)]
  /\ UNCHANGED <<clientVars, store, acct, perm, nOps, row>>

\* the effect of the summary page hydrating a field of the record
SummaryDecryptMaybe ==
  /\ summary.ver # 0
  /\ row.stage # "empty"
  /\ summary.shown = Undefined
  /\ LET key == summary.patientKey
         calls == key # Null /\ ~Falsy(row.encrypted)
     IN summary' = [summary EXCEPT
          !.called = calls,
          !.out = IF calls THEN decryptText(key, row.encrypted) ELSE @,
          !.shown = decryptMaybe(summary.ver, key, row.encrypted, row.plaintext)]
  /\ UNCHANGED <<clientVars, store, acct, perm, nOps, row>>

CodecNext ==
  \/ \E pid \in Patients, salt \in {SaltA}, text \in Texts, iv \in Ivs,
        form \in {"object", "string"}, legacy \in {Null, LegacyPlain} :
       WriteRow(pid, salt, text, iv, form, legacy)
  \/ \E shape \in Shapes : StoreAs(shape)
  \/ \E place \in TamperPlaces, bit \in TamperBits : Tamper(place, bit)
  \/ \E payload \in MalformedPayloads, legacy \in {Null, LegacyPlain} :
       StoreMalformed(payload, legacy)
  \/ \E ver \in {1, 2}, pid \in Patients, salt \in Salts : SummaryLoadKey(ver, pid, salt)
  \/ SummaryDecryptMaybe

SpecCodec == Init /\ [][CodecNext]_vars

(***************************************************************************)
(* Properties of the codec and of the summary page.                        *)
(***************************************************************************)
\* C15: once the summary page has run its key derivation with a server salt
\* that is absent or shorter than 8 characters, it holds no key.
C15_WeakSaltNoKey ==
  (summary.ver # 0 /\ Len(summary.salt) < SaltFloor) => summary.patientKey = Null

\* a string without unpaired surrogates
WellFormed(x) ==
  \A i \in 1..Len(x) :
    /\ isHighSurrogate(x[i]) => (i < Len(x) /\ isLowSurrogate(x[i + 1]))
    /\ isLowSurrogate(x[i]) => (i > 1 /\ isHighSurrogate(x[i - 1]))

\* the page has decrypted, with the key the record was written under, the
\* envelope exactly as encryptText or encryptTextEnvelope produced it
FreshRoundTrip ==
  /\ summary.called
  /\ row.stage = "written"
  /\ summary.patientKey = row.key

\* C16: for every key K and every non-empty well-formed string x that does not
\* start with U+FEFF, decryptText(K, e) returns x for the object envelope e of
\* encryptText(K, x) and for the 'enc:v1:' string envelope of
\* encryptTextEnvelope(K, x).
C16_RoundTrip ==
  (FreshRoundTrip /\ row.text # <<>> /\ WellFormed(row.text) /\ row.text[1] # BOM)
    => summary.out = Return(Str(row.text))

\* C16 as stated: the round trip returns x for every non-empty string x.
C16_RoundTripAsStated ==
  (FreshRoundTrip /\ row.text # <<>>) => summary.out = Return(Str(row.text))

\* a string envelope of a text with a surrogate pair has come back as the text
C16_Witness ==
  /\ FreshRoundTrip
  /\ row.encrypted.t = "string"
  /\ startsWith(row.encrypted.s, ENC_PREFIX)
  /\ row.text = TextAstral
  /\ summary.out = Return(Str(TextAstral))

\* the page has called decryptText with a key on a well-formed envelope whose
\* cipher text was changed or that was written under another key
AuthenticationFails ==
  /\ summary.called
  /\ row.stage \in {"written", "stored", "tampered"}
  /\ (row.stage = "tampered" \/ summary.patientKey # row.key)

\* the strings the page shows instead of a field's content
Markers == {Str(EncryptedMarker), Str(UnableMarker)}

\* C17: when a key is available and authenticated decryption of an envelope
\* fails, decryptText does not throw and the field shows the marker of an
\* unreadable value, never a string passed on as the field's content.
C17_AuthFailureUnreadable ==
  AuthenticationFails => (~summary.out.threw /\ summary.shown \in Markers)

\* the page holds no key and the record holds an envelope and no legacy
\* plaintext
RedactedCase ==
  /\ summary.shown # Undefined
  /\ summary.patientKey = Null
  /\ row.stage \in {"written", "stored", "tampered"}
  /\ row.plaintext = Null

\* the page holds a key and decrypting the record failed: decryptText threw,
\* or authentication failed
UnreadableCase ==
  /\ summary.called
  /\ (summary.out.threw \/ AuthenticationFails)

\* without a key, a field that holds only an envelope shows "(Encrypted)"
RedactedWithoutKey ==
  RedactedCase => summary.shown = Str(EncryptedMarker)

\* C18: without a key, a field that holds only an envelope shows the redacted
\* marker "(Encrypted)", and a field whose decryption failed with a key
\* available shows something else than the redacted marker.
C18_RedactedDistinct ==
  /\ RedactedWithoutKey
  /\ UnreadableCase => summary.shown # Str(EncryptedMarker)

\* the page has hydrated a field of a record that holds an envelope
EnvelopeShown ==
  /\ summary.shown # Undefined
  /\ row.stage \in {"written", "stored", "tampered"}

\* the page held a key and decryptText returned the decrypted text
DecryptionSucceeds ==
  /\ summary.called
  /\ ~summary.out.threw
  /\ ~AuthenticationFails

\* C19: for a field with an envelope and a legacy plaintext the page shows the
\* decrypted envelope when a key is available and decryption succeeds, and the
\* legacy plaintext in every other case; it shows the redacted marker only
\* when the envelope cannot be used and there is no legacy plaintext.
C19_Precedence ==
  /\ (EnvelopeShown /\ row.plaintext # Null) =>
       IF DecryptionSucceeds THEN summary.shown = safeStr(summary.out.val)
       ELSE summary.shown = safeStr(row.plaintext)
  /\ (EnvelopeShown /\ summary.shown = Str(EncryptedMarker)) =>
       (row.plaintext = Null /\ ~DecryptionSucceeds)

\* C20: decryptText never throws, whatever the shape of the payload: every
\* call the page makes produces a returned value.
C20_DecryptTextNeverThrows ==
  summary.called => ~summary.out.threw

\* the payload is an object whose iv or data/ct is neither a number array nor
\* base64 text
ObjectUnnormalisable(payload) ==
  LET ivBytes == fieldBytes(Prop(payload, "iv"))
      dataBytes == fieldBytes(Coalesce(Prop(payload, "data"), Prop(payload, "ct")))
  IN ivBytes.threw \/ dataBytes.threw \/ ivBytes.val = Null \/ dataBytes.val = Null

\* the payload is an envelope, an object or an 'enc:v1:' string, that cannot
\* be normalised to (iv bytes, ciphertext bytes)
Unnormalisable(payload) ==
  IF payload.t = "object" THEN ObjectUnnormalisable(payload)
  ELSE IF payload.t = "string" /\ startsWith(payload.s, ENC_PREFIX)
    THEN LET b64 == SubSeq(payload.s, Len(ENC_PREFIX) + 1, Len(payload.s))
         IN atobThrows(b64)
              \/ Falsy(safeJsonParse(decode(b64ToBytes(b64))))
              \/ ObjectUnnormalisable(safeJsonParse(decode(b64ToBytes(b64))))
  ELSE FALSE

\* C21: an envelope that cannot be normalised is shown with the marker of an
\* unreadable value, not as content, and decryptText hands its raw value back
\* instead of losing it in an exception.
C21_UnnormalisedUnreadable ==
  (summary.called /\ Unnormalisable(row.encrypted)) =>
    (summary.shown \in Markers /\ ~summary.out.threw)

(***************************************************************************)
(* Hydration of a profile row by the summary page                          *)
(* (src/app/app/patients/[id]/summary/page.tsx, 964-1002).                 *)
(***************************************************************************)
\* decryptMaybe without its try and catch around decryptText
decryptMaybeAsync_NoCatch(ver, key, encrypted, plaintext) ==
  IF key # Null /\ ~Falsy(encrypted) /\ decryptText(key, encrypted).threw THEN Throw
  ELSE Return(decryptMaybe(ver, key, encrypted, plaintext))

\* await decryptMaybe(encrypted, plaintext): the promise of the async arrow
\* function, which catches what decryptText throws
decryptMaybeAsync(ver, key, encrypted, plaintext) ==
  Return(decryptMaybe(ver, key, encrypted, plaintext))

\* the object literal `hydrated`: the awaits run in the order of the fields,
\* and the first one that rejects ends the effect
hydrate(ver, key, fields) ==
  LET o == [i \in 1..Len(fields) |->
              decryptMaybeAsync(ver, key, fields[i].encrypted, fields[i].plaintext)]
  IN IF \E i \in 1..Len(fields) : o[i].threw THEN Throw
     ELSE Return(Arr([i \in 1..Len(fields) |-> o[i].val]))

\* the key records are written under
WriterKey == derivePatientKey(PatientIdUnits("p1"), SaltA)
WriterIv == <<1, 2, 3, 4, 5, 6, 7, 8, 9, 10, 11, 12>>

\* an envelope of encryptText with one bit of its cipher text flipped
TamperedEnvelope ==
  LET e == encryptText(WriterKey, TextPlain, WriterIv)
  IN [e EXCEPT !.data.a[1] = IF @ % 2 = 1 THEN @ - 1 ELSE @ + 1]

\* what the encrypted column of a field holds
FieldPayloads ==
  { Null,
    encryptText(WriterKey, TextPlain, WriterIv),
    encryptTextEnvelope(WriterKey, TextAccent, WriterIv),
    TamperedEnvelope,
    Str(ENC_PREFIX \o <<33, 33, 33>>) }
Fields ==
  [encrypted : FieldPayloads, plaintext : {Null}]
    \cup [encrypted : {TamperedEnvelope}, plaintext : {LegacyPlain}]

\* the number of sensitive fields of the record
NumFields == 3

\* the profile row the page will read
StoreRecord(fields) ==
  /\ summary.record = <<>>
  /\ summary.profile = Undefined
  /\ ~summary.aborted
  /\ summary' = [summary EXCEPT !.record = fields]
  /\ UNCHANGED <<clientVars, store, acct, perm, nOps, row>>

\* the profile part of the load effect: hydrated, then setProfile(hydrated)
SummaryHydrateProfile ==
  /\ summary.ver # 0
  /\ summary.record # <<>>
  /\ summary.profile = Undefined
  /\ ~summary.aborted
  /\ \E o \in {hydrate(summary.ver, summary.patientKey, summary.record)} :
       summary' = [summary EXCEPT !.profile = IF o.threw THEN @ ELSE o.val,
                                  !.aborted = o.threw]
  /\ UNCHANGED <<clientVars, store, acct, perm, nOps, row>>

HydrateNext ==
  \/ \E ver \in {1, 2}, salt \in {SaltShort, SaltA} :
       SummaryLoadKey(ver, "p1", salt)
  \/ \E fields \in [1..NumFields -> Fields] : StoreRecord(fields)
  \/ SummaryHydrateProfile

SpecHydrate == Init /\ [][HydrateNext]_vars

\* field i of the record could not be decrypted with the key the page holds
FieldFails(i) ==
  LET f == summary.record[i]
  IN /\ summary.patientKey # Null
     /\ ~Falsy(f.encrypted)
     /\ \/ decryptText(summary.patientKey, f.encrypted).threw
        \/ f.encrypted = TamperedEnvelope
        \/ summary.patientKey # WriterKey

\* the page has run the hydration of a record of which a field fails
HydratedWithFailure ==
  /\ summary.record # <<>>
  /\ summary.profile # Undefined \/ summary.aborted
  /\ \E i \in 1..Len(summary.record) : FieldFails(i)

\* C22: when a field of the record cannot be decrypted, the load does not
\* abort, the profile is set, and every other field shows what decryptMaybe
\* gives for that field alone.
C22_FailureNonFatal ==
  HydratedWithFailure =>
    /\ ~summary.aborted
    /\ summary.profile.t = "array"
    /\ Len(summary.profile.a) = Len(summary.record)
    /\ \A i \in 1..Len(summary.record) :
         summary.profile.a[i] =
           decryptMaybe(summary.ver, summary.patientKey,
                        summary.record[i].encrypted, summary.record[i].plaintext)

\* the first field made decryptText throw, the second was tampered with, and
\* the third shows its decrypted text
C22_Witness ==
  /\ HydratedWithFailure
  /\ summary.patientKey = WriterKey
  /\ summary.record[1].encrypted = Str(ENC_PREFIX \o <<33, 33, 33>>)
  /\ summary.record[2].encrypted = TamperedEnvelope
  /\ summary.record[3].encrypted = encryptTextEnvelope(WriterKey, TextAccent, WriterIv)
  /\ summary.profile.t = "array"
  /\ summary.profile.a[1] \in Markers
  /\ summary.profile.a[3] = Str(TextAccent)

(***************************************************************************)
(* Account page key vault (src/app/app/account/permissions/page.tsx,       *)
(* 393-520): getOrCreateDeviceSecret, encryptJson, setupE2EE.  The signed  *)
(* in user is Me.  A key pair is a number; exportKey gives its public and  *)
(* its private JWK; a device secret is a number.                           *)
(***************************************************************************)
Devices == {"d1", "d2"}
Tabs == {"t1", "t2", "t3"}
\* the device a tab runs on: window.localStorage is shared by t1 and t2
TabDevice(t) == IF t = "t3" THEN "d2" ELSE "d1"

\* setupE2EE calls started in a behaviour
MaxSetups == 3

\* exportPubJwk(kp.publicKey): kty, crv, x, y
PubJwk(kp) == [kind |-> "public", kp |-> kp]
\* exportPrivJwk(kp.privateKey): kty, crv, x, y, d
PrivJwk(kp) == [kind |-> "private", kp |-> kp]
\* the secret getOrCreateDeviceSecret stores
DeviceSecret(n) == [kind |-> "secret", n |-> n]

\* deriveAesKey(deviceSecret, sha256("cc_e2ee_salt:" + userId))
deriveAesKey(material, salt) == [kind |-> "aes", material |-> material, salt |-> salt]

\* encryptJson that returns the object as it is
encryptJson_Plain(key, obj) == obj

\* encryptJson(key, obj): { v: 1, alg: "AES-GCM", iv, ct }
encryptJson(key, obj) == [kind |-> "wrapped", under |-> key, ct |-> obj]

\* what someone who holds a value, and no key, reads in it
Readable(v) ==
  IF v.kind = "row" THEN {v.value}
  ELSE {v}
Exposed(v) ==
  {x \in Readable(v) \cup (UNION {Readable(y) : y \in Readable(v)}) :
     x.kind \in {"private", "secret", "aes"}}

\* a row of user_public_keys or user_e2ee_keys
KeyRow(table, user_id, value) ==
  [kind |-> "row", table |-> table, user_id |-> user_id, value |-> value]

\* setupE2EE up to its first request: setLoading, getOrCreateDeviceSecret,
\* deriveAesKey, generateKeyPair, the exports and encryptJson
SetupStart(t) ==
  /\ vault.call[t].pc = "idle"
  /\ vault.nKeyPairs < MaxSetups
  /\ LET d == TabDevice(t)
         existing == vault.localStorage[d]
         secret == IF existing # Null THEN existing ELSE DeviceSecret(vault.nSecrets + 1)
     IN vault' = [vault EXCEPT
          !.localStorage[d] = secret,
          !.nSecrets = IF existing # Null THEN @ ELSE @ + 1,
          !.nKeyPairs = @ + 1,
          !.call[t] = [pc |-> "up1", kp |-> vault.nKeyPairs + 1, secret |-> secret,
                       created |-> existing = Null,
                       hadWrapped |-> vault.user_e2ee_keys # Null,
                       status |-> [kind |-> "loading", msg |-> "Generating encryption keys"]]]
  /\ UNCHANGED <<codecVars, policyVars, patientPage, thread>>

\* the upsert of user_public_keys and the check of up1.error
SetupUpsertPublic(t, fails) ==
  /\ vault.call[t].pc = "up1"
  /\ LET sent == KeyRow("user_public_keys", Me, PubJwk(vault.call[t].kp))
     IN vault' = [vault EXCEPT
          !.wire = @ \cup {sent},
          !.user_public_keys = IF fails THEN @ ELSE sent,
          !.call[t].pc = IF fails THEN "idle" ELSE "up2",
          !.call[t].status = IF fails THEN [kind |-> "error", msg |-> "up1.error.message"]
                             ELSE @]
  /\ UNCHANGED <<codecVars, policyVars, patientPage, thread>>

\* the upsert of user_e2ee_keys, the check of up2.error, loadKeyStatus, setOk
SetupUpsertPrivate(t, fails) ==
  /\ vault.call[t].pc = "up2"
  /\ LET c == vault.call[t]
         aes == deriveAesKey(c.secret, Me)
         sent == KeyRow("user_e2ee_keys", Me, encryptJson(aes, PrivJwk(c.kp)))
     IN vault' = [vault EXCEPT
          !.wire = @ \cup {sent},
          !.user_e2ee_keys = IF fails THEN @ ELSE sent,
          !.call[t].pc = "idle",
          !.call[t].status = IF fails THEN [kind |-> "error", msg |-> "up2.error.message"]
                             ELSE [kind |-> "ok", msg |-> "Encryption keys set up"]]
  /\ UNCHANGED <<codecVars, policyVars, patientPage, thread>>

VaultNext ==
  \/ \E t \in Tabs : SetupStart(t)
  \/ \E t \in Tabs, fails \in BOOLEAN : SetupUpsertPublic(t, fails)
  \/ \E t \in Tabs, fails \in BOOLEAN : SetupUpsertPrivate(t, fails)

SpecVault == Init /\ [][VaultNext]_vars

\* C23: every value sent to the server or stored in its key tables holds the
\* private key only wrapped under the key derived from the device secret:
\* nobody reads the private JWK, the device secret or the derived key in it.
C23_PrivateKeyOnlyWrapped ==
  /\ \A v \in vault.wire : Exposed(v) = {}
  /\ vault.user_public_keys # Null => Exposed(vault.user_public_keys) = {}
  /\ vault.user_e2ee_keys # Null => Exposed(vault.user_e2ee_keys) = {}

\* both upserts of a call have been sent and the private key is stored wrapped
\* under the key derived from the call's device secret
C23_Witness ==
  \E t \in Tabs :
    /\ vault.call[t].status.kind = "ok"
    /\ vault.user_e2ee_keys # Null
    /\ vault.user_e2ee_keys.value
         = encryptJson(deriveAesKey(vault.call[t].secret, Me), PrivJwk(vault.call[t].kp))
    /\ vault.user_e2ee_keys \in vault.wire
    /\ KeyRow("user_public_keys", Me, PubJwk(vault.call[t].kp)) \in vault.wire

\* a call of setupE2EE found no device secret on its device while a wrapped
\* private key was stored for the account
SecretMissingCall(t) ==
  /\ vault.call[t].pc # "idle" \/ vault.call[t].status.kind # "idle"
  /\ vault.call[t].created
  /\ vault.call[t].hadWrapped

\* C24: a call that finds the device secret missing while a wrapped private
\* key exists for the account ends with the error DeviceSecretMissing and
\* sends nothing; it does not create a new secret and go on.
C24_DeviceSecretMissingReported ==
  \A t \in Tabs :
    SecretMissingCall(t) =>
      /\ vault.call[t].pc = "idle"
      /\ vault.call[t].status = [kind |-> "error", msg |-> "DeviceSecretMissing"]

\* no call is in progress
VaultQuiet == \A t \in Tabs : vault.call[t].pc = "idle"

\* C25: whenever no call of setupE2EE is in progress, the public key and the
\* wrapped private key stored for the account are of the same key pair.
C25_KeyPairConsistent ==
  (VaultQuiet /\ vault.user_public_keys # Null /\ vault.user_e2ee_keys # Null) =>
    vault.user_e2ee_keys.value.ct.kp = vault.user_public_keys.value.kp

(***************************************************************************)
(* Patient page (src/app/app/patients/[id]/page.tsx): permission-aware     *)
(* loading.  The rpc permissions_effective runs on the server; it is the   *)
(* resolver applied to the stored policy for the signed-in user.           *)
(***************************************************************************)
ViewKeys == {"profile_view", "journals_view", "meds_view", "appointments_view",
             "summary_view"}

\* rpc("permissions_effective", { pid }): the resolver's answer per key
permissions_effective(pid) ==
  [k \in ViewKeys |->
     effectiveAllowedOn(SelectOverrides(patient_member_feature_overrides, pid),
                        SelectDefaults(patient_role_feature_defaults, pid),
                        Me, patient_members[pid][Me], k)]

\* const can = (key: string) => !!perms?.[key]
can(key) == patientPage.perms # Null /\ patientPage.perms[key]

\* the data loads of the page and the capability each one is behind
Loads == {"profile", "diagnoses", "journals", "meds", "appointments"}
LoadKey(load) ==
  CASE load \in {"profile", "diagnoses"} -> "profile_view"
    [] load = "journals" -> "journals_view"
    [] load = "meds" -> "meds_view"
    [] OTHER -> "appointments_view"

\* another controller of the circle saves a role default on the patient
\* permissions page, before the signed-in user opens a page
RemoteSetRolePermission(pid, role, fk, allowed) ==
  /\ ~patientPage.mounted
  /\ summary.ver = 0
  /\ \E u \in Users \ {Me} : isControllerRole(patient_members[pid][u])
  /\ patient_role_feature_defaults'
       = UpsertRoleRow(patient_role_feature_defaults, pid, role, fk, allowed, NULL)
  /\ UNCHANGED <<codecVars, clientVars, patient_members, patient_member_feature_overrides,
                 permissions_role_templates, permissions_member_overrides, acct, perm, nOps>>

\* the initial load effect: requireAuth, loadPatient, loadMyRole,
\* loadEffectivePerms, setOk("Permissions loaded.")
PatientPageMount(pid, fails) ==
  /\ ~patientPage.mounted
  /\ patientPage' = [patientPage EXCEPT
       !.mounted = TRUE,
       !.patientId = pid,
       !.perms = IF fails THEN @ ELSE permissions_effective(pid),
       !.status = [kind |-> "ok", msg |-> "Permissions loaded."]]
  /\ UNCHANGED <<codecVars, policyVars, vault, thread>>

\* the effect on [perms, tab]: nothing while perms is null, then each group of
\* loads behind its view permission, setOk("Up to date.")
PatientPageLoadData ==
  /\ patientPage.mounted
  /\ patientPage.status.msg # "Up to date."
  /\ patientPage' =
       IF patientPage.perms = Null THEN [patientPage EXCEPT !.status.msg = "Up to date."]
       ELSE [patientPage EXCEPT
               !.loads = @ \cup {l \in Loads : can(LoadKey(l))},
               !.status = [kind |-> "ok", msg |-> "Up to date."]]
  /\ UNCHANGED <<codecVars, policyVars, vault, thread>>

\* a profile row with one sensitive field per position, written under WriterKey
PlainRecord ==
  [i \in 1..NumFields |->
     [encrypted |-> encryptText(WriterKey, TextPlain, WriterIv), plaintext |-> Null]]

PatientNext ==
  \/ \E pid \in {"p2"}, fk \in {"meds_view", "profile_view", "summary_view"},
        allowed \in BOOLEAN : RemoteSetRolePermission(pid, "family", fk, allowed)
  \/ \E pid \in Patients, fails \in BOOLEAN : PatientPageMount(pid, fails)
  \/ PatientPageLoadData
  \/ \E pid \in Patients : SummaryLoadKey(2, pid, SaltA)
  \/ StoreRecord(PlainRecord)
  \/ SummaryHydrateProfile

SpecPatient == Init /\ [][PatientNext]_vars

\* what the resolver answers for the signed-in user on the stored policy
ResolverAllows(pid, key) == permissions_effective(pid)[key]

\* the loads of the patient page run only behind their view permission
PatientPageLoadsAllowed ==
  /\ patientPage.perms = Null => patientPage.loads = {}
  /\ \A l \in patientPage.loads : ResolverAllows(patientPage.patientId, LoadKey(l))

\* C26: a load of the patient page has run only if the resolver allows its
\* view capability for the viewer on that patient, none while the permissions
\* are not loaded, and the summary page has loaded and decrypted the profile
\* only if the resolver allows summary_view.
C26_RenderOnlyIfAllowed ==
  /\ PatientPageLoadsAllowed
  /\ summary.profile # Undefined => ResolverAllows(summary.patientId, "summary_view")

\* C27: a step of toggleRoleDefault or toggleMemberOverride that gets past the
\* controller check, and so sends its upsert for the selected patient, is
\* taken only when the signed-in user's stored role in that patient is a
\* controller role.
C27_UpsertOnlyByController ==
  [][ \A f \in feature_keys, v \in BOOLEAN :
        ( /\ \/ \E role \in InputRoles, F \in RoleToggleFailSets :
                  toggleRoleDefault(role, f, v, F)
             \/ \E u \in InputUsers, F \in MemberToggleFailSets :
                  toggleMemberOverride(u, f, v, F)
          /\ acct'.status # Status("error", NotControllerMsgAcct) )
        => toLowerCase(patient_members[acct.patientId][Me]) \in ControllerRolesAcct
    ]_vars

\* C28: whenever setRolePermission, setMemberOverride or clearMemberOverride
\* ends with a success status, the policy state its loadAll reloaded shows for
\* the key the value just written, or no override after a clear, whichever
\* requests of the handler failed.
C28_ReadYourWrites ==
  [][ \A f \in feature_keys, F \in MutationFailSets :
        /\ \A role \in InputRoles, v \in BOOLEAN :
             (setRolePermission(role, f, v, F) /\ perm'.status.kind = "ok")
               => rolePermMap(perm', role, f) = {v}
        /\ \A u \in InputUsers, v \in BOOLEAN :
             (setMemberOverride(u, f, v, F) /\ perm'.status.kind = "ok")
               => memberPermMap(perm', u, f) = {v}
        /\ \A u \in InputUsers :
             (clearMemberOverride(u, f, F) /\ perm'.status.kind = "ok")
               => memberPermMap(perm', u, f) = {}
    ]_vars

\* a storage read of loadAll fails under F: the patient name, every attempt of
\* the member list, or both tables of the role defaults
LoadAllReadFails(F) ==
  \/ <<"name", 1>> \in F
  \/ selectWithFallback("patient_members", MemberSelects, "members", F) = 0
  \/ /\ selectWithFallback("patient_role_feature_defaults", RoleDefaultSelects,
                           "defaults", F) = 0
     /\ selectWithFallback("permissions_role_templates", RoleDefaultSelects,
                           "templates", F) = 0

\* C29: when a storage read inside loadAll fails (patient name, members, role
\* defaults), the permissions page ends the load, and the mutation that called
\* it, in the error status; "Up to date." or "Saved" never replaces it.
C29_LoadFailureKept ==
  [][ /\ \A F \in LoadAllFailSets :
           (PermLoadAll(F) /\ LoadAllReadFails(F)) => perm'.status.kind = "error"
      /\ \A F \in MutationFailSets, role \in InputRoles, f \in feature_keys, v \in BOOLEAN :
           (setRolePermission(role, f, v, F) /\ LoadAllReadFails(F))
             => perm'.status.kind = "error"
    ]_vars

(***************************************************************************)
(* The message thread page: the load effect and its 4-second polling.      *)
(***************************************************************************)
ThreadIds == {"th1", "th2"}
\* pending polling queries per thread id, and stored messages, are capped
MaxInflight == 2
MaxMessages == 2

\* a state setter of the page: React drops it once the page is unmounted
ThreadSet(new) == IF thread.mounted = "yes" THEN new ELSE thread

\* the part of loadMessages after the query for thread id tid resolved
loadMessages(pg, tid, fails) ==
  IF fails THEN setPageError(pg, StorageErrorMsg)
  ELSE [pg EXCEPT !.messages = {m \in pg.dm_messages : m.thread_id = tid}]

\* the teardown of the [threadId] effect for thread id tid: the function the
\* effect returned.  The effect callback calls an async function and returns
\* nothing, so React has no cleanup to run; the `return () => clearInterval`
\* is the value the async function's promise resolves to.
EffectCleanup(intervals, tid) == intervals

\* the page is opened on /threads/tid: first render, the [threadId] effect runs
ThreadMount(tid) ==
  /\ thread.mounted = "no"
  /\ thread' =
       IF tid = "" \/ tid = "undefined"
       THEN setPageError([thread EXCEPT !.mounted = "yes", !.threadId = tid],
                         "Missing thread id.")
       ELSE [thread EXCEPT !.mounted = "yes", !.threadId = tid,
                           !.effects = @ \cup {[tid |-> tid, pc |-> "auth"]}]
  /\ UNCHANGED <<codecVars, policyVars, vault, patientPage>>

\* the route parameter changes to tid on the mounted page: the effect of the
\* old thread id is torn down and the effect runs again
ThreadNavigate(tid) ==
  /\ thread.mounted = "yes"
  /\ tid # thread.threadId
  /\ thread' = [thread EXCEPT
                  !.threadId = tid,
                  !.intervals = EffectCleanup(@, thread.threadId),
                  !.effects = @ \cup {[tid |-> tid, pc |-> "auth"]}]
  /\ UNCHANGED <<codecVars, policyVars, vault, patientPage>>

\* the page unmounts: the effect is torn down
ThreadUnmount ==
  /\ thread.mounted = "yes"
  /\ thread' = [thread EXCEPT !.mounted = "gone",
                              !.intervals = EffectCleanup(@, thread.threadId)]
  /\ UNCHANGED <<codecVars, policyVars, vault, patientPage>>

\* requireAuth() of an effect run resolves; without a user the window leaves
\* the page, with one the run calls setLoading and sends its loadMessages query
ThreadAuth(tid, authed) ==
  /\ [tid |-> tid, pc |-> "auth"] \in thread.effects
  /\ thread' =
       IF ~authed
       THEN [thread EXCEPT !.mounted = "gone",
                           !.effects = @ \ {[tid |-> tid, pc |-> "auth"]}]
       ELSE LET pg == ThreadSet([thread EXCEPT
                                   !.error = NULL,
                                   !.status = Status("loading", "Loading chat")])
            IN [pg EXCEPT !.effects = (@ \ {[tid |-> tid, pc |-> "auth"]})
                                        \cup {[tid |-> tid, pc |-> "load"]}]
  /\ UNCHANGED <<codecVars, policyVars, vault, patientPage>>

\* the first loadMessages of an effect run resolves; the run sets "Up to
\* date." and starts the polling timer with the loadMessages of its render
ThreadLoaded(tid, fails) ==
  /\ [tid |-> tid, pc |-> "load"] \in thread.effects
  /\ thread' =
       LET pg == ThreadSet(setOk(loadMessages(thread, tid, fails), "Up to date."))
       IN [pg EXCEPT !.effects = (@ \ {[tid |-> tid, pc |-> "load"]})
                                   \cup {[tid |-> tid, pc |-> "polling"]},
                     !.intervals = @ \cup {tid}]
  /\ UNCHANGED <<codecVars, policyVars, vault, patientPage>>

\* a timer fires: loadMessages of the render that started it is called, which
\* clears the error and sends the query for that render's thread id
ThreadTick(tid) ==
  /\ tid \in thread.intervals
  /\ thread.inflight[tid] < MaxInflight
  /\ thread' = LET pg == ThreadSet([thread EXCEPT !.error = NULL])
               IN [pg EXCEPT !.inflight[tid] = @ + 1]
  /\ UNCHANGED <<codecVars, policyVars, vault, patientPage>>

\* the query of a polling loadMessages resolves
ThreadPollResolved(tid, fails) ==
  /\ thread.inflight[tid] > 0
  /\ thread' = LET pg == ThreadSet(loadMessages(thread, tid, fails))
               IN [pg EXCEPT !.inflight[tid] = @ - 1]
  /\ UNCHANGED <<codecVars, policyVars, vault, patientPage>>

\* a member of the thread sends a message: a row of dm_messages
RemoteSendMessage(tid) ==
  /\ Cardinality(thread.dm_messages) < MaxMessages
  /\ thread' = [thread EXCEPT !.dm_messages =
                  @ \cup {[id |-> Cardinality(@) + 1, thread_id |-> tid]}]
  /\ UNCHANGED <<codecVars, policyVars, vault, patientPage>>

ThreadNext ==
  \/ \E tid \in ThreadIds \cup {""} : ThreadMount(tid)
  \/ \E tid \in ThreadIds : ThreadNavigate(tid)
  \/ ThreadUnmount
  \/ \E tid \in ThreadIds, authed \in BOOLEAN : ThreadAuth(tid, authed)
  \/ \E tid \in ThreadIds, fails \in BOOLEAN : ThreadLoaded(tid, fails)
  \/ \E tid \in ThreadIds : ThreadTick(tid)
  \/ \E tid \in ThreadIds, fails \in BOOLEAN : ThreadPollResolved(tid, fails)
  \/ \E tid \in ThreadIds : RemoteSendMessage(tid)

SpecThread == Init /\ [][ThreadNext]_vars

\* the effect run of the current thread id has finished its first load
CurrentLoaded ==
  /\ thread.mounted = "yes"
  /\ [tid |-> thread.threadId, pc |-> "polling"] \in thread.effects

\* C30: the polling is stopped when its effect is torn down: a loadMessages
\* call of the timer runs only on the mounted page and for the current thread
\* id, and once the current thread's load has finished the displayed messages
\* all belong to the current thread.
C30_PollingStopped ==
  [][ /\ \A tid \in ThreadIds :
           ThreadTick(tid) => (thread.mounted = "yes" /\ tid = thread.threadId)
      /\ CurrentLoaded' => \A m \in thread'.messages : m.thread_id = thread'.threadId
    ]_vars
==============================================================================
